---- MODULE Spec2Model ----
(***************************************************************************)
(* Signaling server (server/index.js) and browser client                   *)
(* (public/js/room.js) of the web-conference application.                  *)
(*                                                                         *)
(* A connection (socket.io socket) and the page that owns it share one id. *)
(* up[s] are the packets of socket s travelling to the server, down[s] the *)
(* packets travelling to the page; socket.io keeps both in send order.     *)
(***************************************************************************)
EXTENDS Integers, Sequences, FiniteSets, TLC

\* ------------------------------------------------------------------ bounds
MaxJoins == 3   \* join-room packets a raw connection set emits in one run
MaxIce   == 2   \* ICE candidates discovered in one run
MaxChat  == 1   \* chat forms submitted in one run
MaxSends == 1   \* offer, answer and ice-candidate packets raw connections emit in one run
MaxClicks == 2  \* clicks on the audio, video and screen-share buttons in one run
MaxBurst == 4   \* packets the members of a room emit in a row in one run
MaxSpoof == 2   \* packets naming another sender that raw connections emit in one run

\* ------------------------------------------------------------- value sets
Sockets   == {"s1", "s2", "s3"}   \* connection ids
Pages     == {"s1", "s2"}         \* the connections opened by a room.js page
RoomNames == {"r1", "r2"}
RoomIds   == RoomNames \cup {""}
Names     == {"ann", "bob"}
Undefined == "#undefined"

\* JavaScript truthiness of a string-or-undefined value
Truthy(x) == x # Undefined /\ x # ""

VARIABLES
  \* ---- server/index.js
  sockState,     \* "new" | "open" | "closed"      (socket.io connection)
  rooms,         \* const rooms = new Map(): roomId -> ordered Map id -> user
  sockRoomId,    \* socket.roomId
  sockUsername,  \* socket.username
  sids,          \* socket.io rooms the socket has joined (socket.join)
  joinLog,       \* console.log(`... joined room ...`): <<id, roomId>> in order
  up, down,      \* packets in flight
  \* ---- public/js/room.js
  phase,         \* position of the page: "idle","raw","media","joined","nomedia","left"
  roomId,        \* this.roomId
  username,      \* this.username
  peers,         \* this.peers: remote id -> session (connection object)
  snapshot,      \* whether existing-users was received, and the ids it listed
  roster,        \* the participant-<id> items of #participants-list
  videos,        \* the video-<id> containers of #video-grid
  orphans,       \* RTCPeerConnection objects replaced in this.peers and never closed
  offerCount,    \* socket.emit('offer') calls made, per <<from, to>>
  iceBudget,     \* candidates the ICE agents have discovered so far
  earlyIce,      \* addIceCandidate calls made while remoteDescription was null
  iceLost,       \* candidates whose addIceCandidate was rejected (logged, dropped)
  transportLost, \* <<page, remote id, offers sent to it so far>> per connectivity loss reported
  chatLog,       \* chat-message packets handled by the server, with the members then
  chatShown,     \* addChatMessage calls per page
  chatCount,     \* chat forms submitted so far
  localStream,   \* this.localStream: "none" | "av" | "audio" | "stopped"
  isAudioEnabled,   \* this.isAudioEnabled
  isVideoEnabled,   \* this.isVideoEnabled
  isScreenSharing,  \* this.isScreenSharing
  screenStream,  \* this.screenStream: "none" | "live" | "stopped"
  senders,       \* track of the video sender of each stored connection: "camera" | "screen" | "none"
  micOff,        \* remote ids whose p-mic-<id> icon has class disabled
  camOff,        \* remote ids whose p-cam-<id> icon has class disabled
  clicks,        \* control-bar buttons pressed so far
  serverUp,      \* the node process of server/index.js is running
  joinCount,     \* join-room packets emitted by raw connections so far
  sendCount      \* offer, answer, ice-candidate packets emitted by raw connections so far

serverVars == <<sockState, rooms, sockRoomId, sockUsername, sids, joinLog, serverUp>>
mediaVars == <<localStream, isAudioEnabled, isVideoEnabled, isScreenSharing,
               screenStream, senders, micOff, camOff, clicks>>
\* what a page's session state, lists and chat are, for actions that leave them
sessionVars == <<peers, snapshot, roster, videos, orphans, offerCount, iceBudget,
                 transportLost, earlyIce, iceLost, chatShown, chatCount>>

clientVars == <<phase, roomId, username, peers, snapshot, roster, videos, orphans, offerCount,
                iceBudget, transportLost, earlyIce, iceLost, chatShown, chatCount,
                localStream, isAudioEnabled, isVideoEnabled, isScreenSharing,
                screenStream, senders, micOff, camOff, clicks>>
vars == <<sockState, rooms, sockRoomId, sockUsername, sids, joinLog, up, down,
          phase, roomId, username, peers, snapshot, roster, videos, orphans,
          offerCount, iceBudget, transportLost,
          earlyIce, iceLost, chatLog, chatShown, chatCount, joinCount, sendCount,
          localStream, isAudioEnabled, isVideoEnabled, isScreenSharing,
          screenStream, senders, micOff, camOff, clicks, serverUp>>

\* ------------------------------------------------------------ JS Map helpers
\* Map.prototype.has / get on an ordered Map kept as a sequence of entries
MapHas(m, id) == \E i \in 1..Len(m) : m[i].id = id

\* Map.prototype.set: an existing key keeps its position, a new key is appended
MapSet(m, id, user) ==
  IF MapHas(m, id)
    THEN [i \in 1..Len(m) |-> IF m[i].id = id THEN user ELSE m[i]]
    ELSE Append(m, user)

\* Map.prototype.delete
MapDelete(m, id) == SelectSeq(m, LAMBDA u : u.id # id)

MapKeys(m) == {m[i].id : i \in 1..Len(m)}

\* ------------------------------------------------------------ socket.io
\* a packet
\* an event emitted without a payload object: the handler's parameter
\* ({ to, ... }) or ({ roomId, ... }) is destructured from undefined
NoPayload == "#nopayload"

Msg(type, from, to, name, body) ==
  [type |-> type, from |-> from, to |-> to, name |-> name, body |-> body]

\* the sockets of a socket.io room: those that joined it and are connected;
\* every socket is also the only default member of the room named by its id
InRoom(t, room) == sockState[t] = "open" /\ (room \in sids[t] \/ room = t)

\* variant: the packet overtakes what is already queued for the recipient
EmitToOthersFirst(q, s, room, msg) ==
  [t \in Sockets |-> IF t # s /\ InRoom(t, room) THEN <<msg>> \o q[t] ELSE q[t]]

\* socket.to(room).emit(msg): every socket of the room but the sender
EmitToOthers(q, s, room, msg) ==
  [t \in Sockets |-> IF t # s /\ InRoom(t, room) THEN Append(q[t], msg) ELSE q[t]]

\* io.to(room).emit(msg): every socket of the room
EmitToRoom(q, room, msg) ==
  [t \in Sockets |-> IF InRoom(t, room) THEN Append(q[t], msg) ELSE q[t]]

\* socket.emit(msg): the socket itself
EmitToSelf(q, s, msg) == [q EXCEPT ![s] = Append(@, msg)]

\* ------------------------------------------------------------ initial state
NoPeers == [r \in {} |-> 0]

Init ==
  /\ sockState = [s \in Sockets |-> "new"]
  /\ rooms = [r \in {} |-> <<>>]
  /\ sockRoomId = [s \in Sockets |-> Undefined]
  /\ sockUsername = [s \in Sockets |-> Undefined]
  /\ sids = [s \in Sockets |-> {}]
  /\ joinLog = <<>>
  /\ up = [s \in Sockets |-> <<>>]
  /\ down = [s \in Sockets |-> <<>>]
  /\ phase = [s \in Sockets |-> "idle"]
  /\ roomId = [s \in Sockets |-> Undefined]
  /\ username = [s \in Sockets |-> Undefined]
  /\ peers = [s \in Sockets |-> NoPeers]
  /\ snapshot = [s \in Sockets |-> [got |-> FALSE, ids |-> {}]]
  /\ roster = [s \in Sockets |-> {}]
  /\ videos = [s \in Sockets |-> {}]
  /\ orphans = [s \in Sockets |-> <<>>]
  /\ offerCount = [p \in Sockets \X Sockets |-> 0]
  /\ iceBudget = 0
  /\ earlyIce = {}
  /\ iceLost = {}
  /\ transportLost = {}
  /\ chatLog = <<>>
  /\ chatShown = [s \in Sockets |-> <<>>]
  /\ chatCount = 0
  /\ localStream = [s \in Sockets |-> "none"]
  /\ isAudioEnabled = [s \in Sockets |-> TRUE]
  /\ isVideoEnabled = [s \in Sockets |-> TRUE]
  /\ isScreenSharing = [s \in Sockets |-> FALSE]
  /\ screenStream = [s \in Sockets |-> "none"]
  /\ senders = [s \in Sockets |-> NoPeers]
  /\ micOff = [s \in Sockets |-> {}]
  /\ camOff = [s \in Sockets |-> {}]
  /\ clicks = 0
  /\ serverUp = TRUE
  /\ joinCount = 0
  /\ sendCount = 0

\* ------------------------------------------------------------ server handlers
\* the users of a room other than the joining socket, in Map order
ExistingUsers(room, s) == SelectSeq(room, LAMBDA u : u.id # s)

\* the join-room handler sending existing-users only when the list is not empty
OnJoinRoomSkipsEmptySnapshot(s, rid, uname) ==
  LET had  == IF rid \in DOMAIN rooms THEN rooms[rid] ELSE <<>>
      room == MapSet(had, s, [id |-> s, username |-> uname])
      joined == Msg("user-joined", s, "", uname, <<>>)
      existing == Msg("existing-users", s, "", uname, ExistingUsers(room, s))
  IN /\ sids' = [sids EXCEPT ![s] = @ \cup {rid}]
     /\ rooms' = [r \in DOMAIN rooms \cup {rid} |-> IF r = rid THEN room ELSE rooms[r]]
     /\ down' = IF ExistingUsers(room, s) = <<>>
                  THEN EmitToOthers(down, s, rid, joined)
                  ELSE EmitToSelf(EmitToOthers(down, s, rid, joined), s, existing)
     /\ sockRoomId' = [sockRoomId EXCEPT ![s] = rid]
     /\ sockUsername' = [sockUsername EXCEPT ![s] = uname]
     /\ joinLog' = Append(joinLog, <<s, rid>>)

\* socket.on('join-room', ({ roomId, username }) => ...)
OnJoinRoom(s, rid, uname) ==
  LET had  == IF rid \in DOMAIN rooms THEN rooms[rid] ELSE <<>>
      room == MapSet(had, s, [id |-> s, username |-> uname])
      joined == Msg("user-joined", s, "", uname, <<>>)
      existing == Msg("existing-users", s, "", uname, ExistingUsers(room, s))
  IN /\ sids' = [sids EXCEPT ![s] = @ \cup {rid}]
     /\ rooms' = [r \in DOMAIN rooms \cup {rid} |-> IF r = rid THEN room ELSE rooms[r]]
     /\ down' = EmitToSelf(EmitToOthers(down, s, rid, joined), s, existing)
     /\ sockRoomId' = [sockRoomId EXCEPT ![s] = rid]
     /\ sockUsername' = [sockUsername EXCEPT ![s] = uname]
     /\ joinLog' = Append(joinLog, <<s, rid>>)

\* the disconnect handler without the removal of the emptied room
RoomsAfterDisconnectKeepsEmpty(s) ==
  LET rid == sockRoomId[s] IN
  IF Truthy(rid) /\ rid \in DOMAIN rooms
    THEN [rooms EXCEPT ![rid] = MapDelete(rooms[rid], s)]
    ELSE rooms

\* the room registry after the disconnect handler of socket s
RoomsAfterDisconnect(s) ==
  LET rid == sockRoomId[s] IN
  IF Truthy(rid) /\ rid \in DOMAIN rooms
    THEN LET room == MapDelete(rooms[rid], s) IN
         IF Len(room) = 0
           THEN [r \in DOMAIN rooms \ {rid} |-> rooms[r]]
           ELSE [rooms EXCEPT ![rid] = room]
    ELSE rooms

\* the disconnect handler announcing every departure with socket.broadcast.emit,
\* whether or not the socket had joined a room
SrvDisconnectBroadcasts(s) ==
  /\ serverUp
  /\ sockState[s] = "open"
  /\ phase[s] = "left"
  /\ sockState' = [sockState EXCEPT ![s] = "closed"]
  /\ sids' = [sids EXCEPT ![s] = {}]
  /\ rooms' = RoomsAfterDisconnect(s)
  /\ up' = [up EXCEPT ![s] = <<>>]
  /\ down' = [t \in Sockets |->
               IF t = s THEN <<>>
               ELSE IF sockState[t] = "open"
                 THEN Append(down[t], Msg("user-left", s, "", sockUsername[s], <<>>))
                 ELSE down[t]]
  /\ UNCHANGED <<sockRoomId, sockUsername, joinLog, serverUp, chatLog, joinCount, sendCount>>
  /\ UNCHANGED clientVars

\* socket.on('disconnect', () => ...); socket.io has already taken the socket
\* out of its rooms when the handler runs, and the packets in flight are lost
SrvDisconnect(s) ==
  /\ serverUp
  /\ sockState[s] = "open"
  /\ phase[s] = "left"
  /\ sockState' = [sockState EXCEPT ![s] = "closed"]
  /\ sids' = [sids EXCEPT ![s] = {}]
  /\ rooms' = RoomsAfterDisconnect(s)
  /\ up' = [up EXCEPT ![s] = <<>>]
  /\ down' = LET q == [down EXCEPT ![s] = <<>>] IN
             IF Truthy(sockRoomId[s])
               THEN EmitToOthers(q, s, sockRoomId[s],
                                 Msg("user-left", s, "", sockUsername[s], <<>>))
               ELSE q
  /\ UNCHANGED <<sockRoomId, sockUsername, joinLog, serverUp, chatLog, joinCount, sendCount>>
  /\ UNCHANGED clientVars

\* the server takes the next packet of socket s
Takes(s, type) ==
  /\ serverUp
  /\ sockState[s] = "open"
  /\ up[s] # <<>>
  /\ Head(up[s]).type = type
  /\ Head(up[s]).to # NoPayload
  /\ up' = [up EXCEPT ![s] = Tail(@)]

\* the relay handlers building a payload of their own instead of forwarding
SrvRelayRewrites(s, type) ==
  /\ Takes(s, type)
  /\ LET m == Head(up[s]) IN
     down' = EmitToOthers(down, s, m.to,
               Msg(type, s, "", IF type = "offer" THEN sockUsername[s] ELSE "", "v=0"))
  /\ UNCHANGED <<chatLog, joinCount, sendCount>>
  /\ UNCHANGED serverVars
  /\ UNCHANGED clientVars

\* socket.on('offer'), socket.on('answer'), socket.on('ice-candidate'):
\* socket.to(to).emit(type, { from: socket.id, ... })
\* variant: the relay copies the sender id the payload names
SrvRelayTrustsPayload(s, type) ==
  /\ Takes(s, type)
  /\ LET m == Head(up[s]) IN
     down' = EmitToOthers(down, s, m.to,
               Msg(type, m.from, "", IF type = "offer" THEN sockUsername[s] ELSE "", m.body))
  /\ UNCHANGED <<chatLog, joinCount, sendCount>>
  /\ UNCHANGED serverVars
  /\ UNCHANGED clientVars

SrvRelay(s, type) ==
  /\ Takes(s, type)
  /\ LET m == Head(up[s]) IN
     down' = EmitToOthers(down, s, m.to,
               Msg(type, s, "", IF type = "offer" THEN sockUsername[s] ELSE "", m.body))
  /\ UNCHANGED <<chatLog, joinCount, sendCount>>
  /\ UNCHANGED serverVars
  /\ UNCHANGED clientVars

\* socket.on('join-room') on the next packet of socket s
SrvJoinRoom(s) ==
  /\ Takes(s, "join-room")
  /\ OnJoinRoom(s, Head(up[s]).to, Head(up[s]).name)
  /\ UNCHANGED <<sockState, serverUp, chatLog, joinCount, sendCount>>
  /\ UNCHANGED clientVars

SrvOffer(s)  == SrvRelay(s, "offer")
SrvAnswer(s) == SrvRelay(s, "answer")
SrvIce(s)    == SrvRelay(s, "ice-candidate")

\* toggle-audio / toggle-video: socket.to(roomId).emit('user-toggle-...',
\* { userId: socket.id, enabled })
SrvToggle(s, type) ==
  /\ Takes(s, type)
  /\ LET m == Head(up[s]) IN
     down' = EmitToOthers(down, s, m.to, Msg("user-" \o type, s, "", "", m.body))
  /\ UNCHANGED <<chatLog, joinCount, sendCount>>
  /\ UNCHANGED serverVars
  /\ UNCHANGED clientVars

SrvToggleAudio(s) == SrvToggle(s, "toggle-audio")
SrvToggleVideo(s) == SrvToggle(s, "toggle-video")

\* the chat handler broadcasting with socket.to(roomId) instead of io.to(roomId)
SrvChatToOthers(s) ==
  /\ Takes(s, "chat-message")
  /\ LET m  == Head(up[s])
         ts == Len(chatLog) + 1
     IN /\ down' = EmitToOthers(down, s, m.to,
                     Msg("chat-message", s, "", sockUsername[s],
                         [message |-> m.body, timestamp |-> ts]))
        /\ chatLog' = Append(chatLog,
                        [from |-> s, room |-> m.to, message |-> m.body, timestamp |-> ts,
                         members |-> IF m.to \in DOMAIN rooms
                                       THEN MapKeys(rooms[m.to]) ELSE {}])
  /\ UNCHANGED <<joinCount, sendCount>>
  /\ UNCHANGED serverVars
  /\ UNCHANGED clientVars

\* socket.on('chat-message', ({ roomId, message }) => io.to(roomId).emit(...));
\* the timestamp is the server's clock, which only moves forward
SrvChat(s) ==
  /\ Takes(s, "chat-message")
  /\ LET m  == Head(up[s])
         ts == Len(chatLog) + 1
     IN /\ down' = EmitToRoom(down, m.to,
                     Msg("chat-message", s, "", sockUsername[s],
                         [message |-> m.body, timestamp |-> ts]))
        /\ chatLog' = Append(chatLog,
                        [from |-> s, room |-> m.to, message |-> m.body, timestamp |-> ts,
                         members |-> IF m.to \in DOMAIN rooms
                                       THEN MapKeys(rooms[m.to]) ELSE {}])
  /\ UNCHANGED <<joinCount, sendCount>>
  /\ UNCHANGED serverVars
  /\ UNCHANGED clientVars

\* ------------------------------------------------------------ the page (room.js)
Live(c) == phase[c] \in {"media", "joined", "nomedia"}

\* a session that starts createAndSendOffer whatever the initiator flag says
NewPeerAlwaysOffers(uname, initiator) ==
  [username |-> uname, closed |-> FALSE, local |-> "none", remote |-> "none",
   sendTask |-> "createOffer", recvTask |-> "none", ansTask |-> "none",
   chain |-> <<>>, applied |-> <<>>, iceOut |-> 0]

\* the object createPeerConnection stores in this.peers: an RTCPeerConnection
\* with no descriptions. sendTask, recvTask and ansTask are the awaits at which
\* createAndSendOffer, the offer handler and the answer handler are parked;
\* chain holds the addIceCandidate operations queued behind a pending
\* setRemoteDescription, applied the remote candidates the transport took
NewPeer(uname, initiator) ==
  [username |-> uname, closed |-> FALSE, local |-> "none", remote |-> "none",
   sendTask |-> IF initiator THEN "createOffer" ELSE "none",
   recvTask |-> "none", ansTask |-> "none",
   chain |-> <<>>, applied |-> <<>>, iceOut |-> 0]

\* Map.prototype.set on this.peers
PeerSet(m, id, p) == [r \in DOMAIN m \cup {id} |-> IF r = id THEN p ELSE m[r]]

\* Map.prototype.delete on this.peers
PeerDelete(m, id) == [r \in DOMAIN m \ {id} |-> m[r]]

\* createPeerConnection treating every caller as the initiator
createPeerConnectionInitiates(m, userId, uname, initiator) ==
  PeerSet(m, userId, NewPeer(uname, TRUE))

\* createPeerConnection(userId, username, initiator)
createPeerConnection(m, userId, uname, initiator) ==
  PeerSet(m, userId, NewPeer(uname, initiator))

\* removePeer leaving alone a session that has no remote description yet
removePeerIfNegotiated(m, userId) ==
  IF userId \in DOMAIN m /\ m[userId].remote # "none" THEN PeerDelete(m, userId) ELSE m

\* removePeer(userId): close the connection and forget it
removePeer(m, userId) == IF userId \in DOMAIN m THEN PeerDelete(m, userId) ELSE m

\* addParticipant(userId, username): one list item per id
\* variant: the list item is never appended
addParticipantSkipped(items, userId) == items

addParticipant(items, userId) == items \cup {userId}

\* the connection object stored under userId that this.peers.set is about to
\* replace: createPeerConnection does not close it
Orphaned(m, userId) ==
  IF userId \in DOMAIN m /\ ~m[userId].closed
    THEN <<[id |-> userId, session |-> m[userId], lost |-> FALSE]>>
    ELSE <<>>

\* users.forEach(user => this.createPeerConnection(user.id, user.username, true))
RECURSIVE CreateAll(_, _)
CreateAll(m, users) ==
  IF users = <<>> THEN m
  ELSE CreateAll(createPeerConnection(m, Head(users).id, Head(users).username, TRUE),
                 Tail(users))

\* the connection objects the forEach of the existing-users handler replaces
RECURSIVE OrphanedAll(_, _)
OrphanedAll(m, users) ==
  IF users = <<>> THEN <<>>
  ELSE Orphaned(m, Head(users).id)
       \o OrphanedAll(createPeerConnection(m, Head(users).id, Head(users).username, TRUE),
                      Tail(users))

\* the video sender createPeerConnection makes: addTrack of every track of
\* this.localStream, so the camera track when the stream has one
VideoSender(c) == IF localStream[c] = "av" THEN "camera" ELSE "none"

\* the video senders of page c after connections for ids were created
SendersAdd(m, ids, c) ==
  [r \in DOMAIN m \cup ids |-> IF r \in ids THEN VideoSender(c) ELSE m[r]]

\* the video senders after the connection for userId was removed
SendersDrop(m, userId) == [r \in DOMAIN m \ {userId} |-> m[r]]

\* the page takes the next packet off its socket
Gets(c, type) ==
  /\ Live(c)
  /\ down[c] # <<>>
  /\ Head(down[c]).type = type
  /\ down' = [down EXCEPT ![c] = Tail(@)]

\* constructor + init(): the socket opens, room and name are read; a missing
\* room or name sends the browser back to the landing page
Load(c, rid, uname) ==
  /\ phase[c] = "idle"
  /\ sockState' = [sockState EXCEPT ![c] = "open"]
  /\ roomId' = [roomId EXCEPT ![c] = rid]
  /\ username' = [username EXCEPT ![c] = IF Truthy(rid) THEN uname ELSE Undefined]
  /\ phase' = [phase EXCEPT ![c] = IF Truthy(rid) /\ Truthy(uname) THEN "media" ELSE "left"]
  /\ UNCHANGED <<rooms, sockRoomId, sockUsername, sids, joinLog, serverUp, up, down, peers,
                 snapshot, roster, videos, orphans, offerCount, iceBudget, transportLost, earlyIce, iceLost, chatLog,
                 chatShown, chatCount, mediaVars, joinCount, sendCount>>

\* getLocalMedia() resolves with video and audio, joinRoom() emits join-room
MediaOk(c) ==
  /\ phase[c] = "media"
  /\ phase' = [phase EXCEPT ![c] = "joined"]
  /\ up' = [up EXCEPT ![c] = Append(@, Msg("join-room", c, roomId[c], username[c], <<>>))]
  /\ localStream' = [localStream EXCEPT ![c] = "av"]
  /\ UNCHANGED <<roomId, username, peers, snapshot, roster, videos, orphans, offerCount, iceBudget, transportLost, earlyIce,
                 iceLost, chatShown, chatCount, isAudioEnabled, isVideoEnabled, isScreenSharing, screenStream, senders, micOff, camOff, clicks, down, chatLog, joinCount, sendCount>>
  /\ UNCHANGED serverVars

\* getLocalMedia(): getUserMedia({video, audio}) throws, the retry with audio
\* alone resolves: isVideoEnabled = false, then joinRoom() emits join-room
MediaAudioOnly(c) ==
  /\ phase[c] = "media"
  /\ phase' = [phase EXCEPT ![c] = "joined"]
  /\ localStream' = [localStream EXCEPT ![c] = "audio"]
  /\ isVideoEnabled' = [isVideoEnabled EXCEPT ![c] = FALSE]
  /\ up' = [up EXCEPT ![c] = Append(@, Msg("join-room", c, roomId[c], username[c], <<>>))]
  /\ UNCHANGED <<roomId, username, peers, snapshot, roster, videos, orphans, offerCount,
                 iceBudget, transportLost, earlyIce, iceLost, chatShown, chatCount,
                 isAudioEnabled, isScreenSharing, screenStream, senders, micOff, camOff,
                 clicks, down, chatLog, joinCount, sendCount>>
  /\ UNCHANGED serverVars

\* variant: init() joins the room although getLocalMedia() threw
MediaFailJoins(c) ==
  /\ phase[c] = "media"
  /\ phase' = [phase EXCEPT ![c] = "nomedia"]
  /\ up' = [up EXCEPT ![c] = Append(@, Msg("join-room", c, roomId[c], username[c], <<>>))]
  /\ UNCHANGED <<roomId, username, down, chatLog, joinCount, sendCount>>
  /\ UNCHANGED mediaVars
  /\ UNCHANGED sessionVars
  /\ UNCHANGED serverVars

\* getLocalMedia() throws for video+audio and for audio alone: no join
MediaFail(c) ==
  /\ phase[c] = "media"
  /\ phase' = [phase EXCEPT ![c] = "nomedia"]
  /\ UNCHANGED <<roomId, username, peers, snapshot, roster, videos, orphans, offerCount, iceBudget, transportLost, earlyIce,
                 iceLost, chatShown, chatCount, mediaVars, up, down, chatLog, joinCount, sendCount>>
  /\ UNCHANGED serverVars

\* leaveRoom(), or the tab or the network going away
Leave(c) ==
  /\ Live(c)
  /\ phase' = [phase EXCEPT ![c] = "left"]
  /\ peers' = [peers EXCEPT ![c] =
                 [r \in DOMAIN @ |-> [@[r] EXCEPT !.closed = TRUE, !.sendTask = "none",
                                                  !.recvTask = "none", !.ansTask = "none",
                                                  !.chain = <<>>]]]
  /\ localStream' = [localStream EXCEPT ![c] = IF @ = "none" THEN @ ELSE "stopped"]
  /\ screenStream' = [screenStream EXCEPT ![c] = IF @ = "none" THEN @ ELSE "stopped"]
  /\ UNCHANGED <<roomId, username, snapshot, roster, videos, orphans, offerCount, iceBudget, transportLost, earlyIce,
                 iceLost, chatShown, chatCount, isAudioEnabled, isVideoEnabled, isScreenSharing, senders, micOff, camOff, clicks, up, down, chatLog, joinCount, sendCount>>
  /\ UNCHANGED serverVars

\* the fields a handler of the page leaves alone
PageFrame ==
  /\ UNCHANGED <<phase, roomId, username, chatLog, joinCount, sendCount>>
  /\ UNCHANGED serverVars

\* socket.on('existing-users', users => ...)
CliExistingUsers(c) ==
  /\ Gets(c, "existing-users")
  /\ LET users == Head(down[c]).body IN
     /\ peers' = [peers EXCEPT ![c] = CreateAll(@, users)]
     /\ snapshot' = [snapshot EXCEPT ![c] = [got |-> TRUE, ids |-> MapKeys(users)]]
     /\ roster' = [roster EXCEPT ![c] = @ \cup MapKeys(users)]
     /\ orphans' = [orphans EXCEPT ![c] = @ \o OrphanedAll(peers[c], users)]
  /\ senders' = [senders EXCEPT ![c] = SendersAdd(@, MapKeys(Head(down[c]).body), c)]
  /\ UNCHANGED <<videos, offerCount, iceBudget, transportLost, earlyIce, iceLost, chatShown, chatCount, localStream, isAudioEnabled, isVideoEnabled, isScreenSharing, screenStream, micOff, camOff, clicks, up>>
  /\ PageFrame

\* the user-joined handler passing initiator = true
CliUserJoinedAsInitiator(c) ==
  /\ Gets(c, "user-joined")
  /\ LET m == Head(down[c]) IN
     /\ peers' = [peers EXCEPT ![c] = createPeerConnection(@, m.from, m.name, TRUE)]
     /\ roster' = [roster EXCEPT ![c] = addParticipant(@, m.from)]
     /\ orphans' = [orphans EXCEPT ![c] = @ \o Orphaned(peers[c], m.from)]
  /\ senders' = [senders EXCEPT ![c] = SendersAdd(@, {Head(down[c]).from}, c)]
  /\ UNCHANGED <<snapshot, videos, offerCount, iceBudget, transportLost, earlyIce, iceLost, chatShown, chatCount, localStream, isAudioEnabled, isVideoEnabled, isScreenSharing, screenStream, micOff, camOff, clicks, up>>
  /\ PageFrame

\* variant: user-joined only adds the list item, no session is created
CliUserJoinedListsOnly(c) ==
  /\ Gets(c, "user-joined")
  /\ LET m == Head(down[c]) IN
     /\ peers' = peers
     /\ roster' = [roster EXCEPT ![c] = addParticipant(@, m.from)]
     /\ orphans' = orphans
  /\ senders' = senders
  /\ UNCHANGED <<snapshot, videos, offerCount, iceBudget, transportLost, earlyIce, iceLost, chatShown, chatCount, localStream, isAudioEnabled, isVideoEnabled, isScreenSharing, screenStream, micOff, camOff, clicks, up>>
  /\ PageFrame

\* socket.on('user-joined', ({ userId, username }) => ...)
CliUserJoined(c) ==
  /\ Gets(c, "user-joined")
  /\ LET m == Head(down[c]) IN
     /\ peers' = [peers EXCEPT ![c] = createPeerConnection(@, m.from, m.name, FALSE)]
     /\ roster' = [roster EXCEPT ![c] = addParticipant(@, m.from)]
     /\ orphans' = [orphans EXCEPT ![c] = @ \o Orphaned(peers[c], m.from)]
  /\ senders' = [senders EXCEPT ![c] = SendersAdd(@, {Head(down[c]).from}, c)]
  /\ UNCHANGED <<snapshot, videos, offerCount, iceBudget, transportLost, earlyIce, iceLost, chatShown, chatCount, localStream, isAudioEnabled, isVideoEnabled, isScreenSharing, screenStream, micOff, camOff, clicks, up>>
  /\ PageFrame

\* socket.on('user-left', ({ userId }) => this.removePeer(userId))
CliUserLeft(c) ==
  /\ Gets(c, "user-left")
  /\ peers' = [peers EXCEPT ![c] = removePeer(@, Head(down[c]).from)]
  /\ roster' = [roster EXCEPT ![c] = @ \ {Head(down[c]).from}]
  /\ videos' = [videos EXCEPT ![c] = @ \ {Head(down[c]).from}]
  /\ senders' = [senders EXCEPT ![c] = SendersDrop(@, Head(down[c]).from)]
  /\ micOff' = [micOff EXCEPT ![c] = @ \ {Head(down[c]).from}]
  /\ camOff' = [camOff EXCEPT ![c] = @ \ {Head(down[c]).from}]
  /\ UNCHANGED <<snapshot, orphans, offerCount, iceBudget, transportLost, earlyIce, iceLost, chatShown, chatCount, localStream, isAudioEnabled, isVideoEnabled, isScreenSharing, screenStream, clicks, up>>
  /\ PageFrame

\* toggleAudio(): only with a local stream that has an audio track; flips the
\* flag and emits toggle-audio with the new value
toggleAudio(c) ==
  /\ Live(c)
  /\ localStream[c] \in {"av", "audio"}
  /\ clicks < MaxClicks
  /\ clicks' = clicks + 1
  /\ isAudioEnabled' = [isAudioEnabled EXCEPT ![c] = ~@]
  /\ up' = [up EXCEPT ![c] = Append(@, Msg("toggle-audio", c, roomId[c], "", ~isAudioEnabled[c]))]
  /\ UNCHANGED <<localStream, isVideoEnabled, isScreenSharing, screenStream, senders, micOff, camOff, down>>
  /\ UNCHANGED sessionVars
  /\ PageFrame

\* toggleVideo(): only with a local stream that has a video track
toggleVideo(c) ==
  /\ Live(c)
  /\ localStream[c] = "av"
  /\ clicks < MaxClicks
  /\ clicks' = clicks + 1
  /\ isVideoEnabled' = [isVideoEnabled EXCEPT ![c] = ~@]
  /\ up' = [up EXCEPT ![c] = Append(@, Msg("toggle-video", c, roomId[c], "", ~isVideoEnabled[c]))]
  /\ UNCHANGED <<localStream, isAudioEnabled, isScreenSharing, screenStream, senders, micOff, camOff, down>>
  /\ UNCHANGED sessionVars
  /\ PageFrame

\* variant: no sender is given the track
ReplaceVideoTrackSkipped(m, track) ==
  [r \in DOMAIN m |-> m[r]]

\* peers.forEach: the sender whose track is a video track gets the track
ReplaceVideoTrack(m, track) ==
  [r \in DOMAIN m |-> IF m[r] # "none" THEN track ELSE m[r]]

\* startScreenShare() after getDisplayMedia resolved (a rejection is caught
\* and changes nothing)
startScreenShare(c) ==
  /\ Live(c)
  /\ ~isScreenSharing[c]
  /\ clicks < MaxClicks
  /\ clicks' = clicks + 1
  /\ screenStream' = [screenStream EXCEPT ![c] = "live"]
  /\ senders' = [senders EXCEPT ![c] = ReplaceVideoTrack(@, "screen")]
  /\ isScreenSharing' = [isScreenSharing EXCEPT ![c] = TRUE]
  /\ UNCHANGED <<localStream, isAudioEnabled, isVideoEnabled, micOff, camOff, up, down>>
  /\ UNCHANGED sessionVars
  /\ PageFrame

\* stopScreenShare(), from the button or from screenTrack.onended
stopScreenShare(c) ==
  /\ Live(c)
  /\ isScreenSharing[c]
  /\ clicks < MaxClicks
  /\ clicks' = clicks + 1
  /\ screenStream' = [screenStream EXCEPT ![c] = IF @ = "none" THEN @ ELSE "stopped"]
  /\ senders' = [senders EXCEPT ![c] =
                   IF localStream[c] = "av" THEN ReplaceVideoTrack(@, "camera") ELSE @]
  /\ isScreenSharing' = [isScreenSharing EXCEPT ![c] = FALSE]
  /\ UNCHANGED <<localStream, isAudioEnabled, isVideoEnabled, micOff, camOff, up, down>>
  /\ UNCHANGED sessionVars
  /\ PageFrame

\* updatePeerAudioStatus / updatePeerVideoStatus: classList.toggle('disabled',
\* !enabled) on the participant's icon, if the participant has a list item
UpdatePeerStatus(off, items, userId, enabled) ==
  IF userId \notin items THEN off
  ELSE IF enabled THEN off \ {userId} ELSE off \cup {userId}

CliUserToggleAudio(c) ==
  /\ Gets(c, "user-toggle-audio")
  /\ micOff' = [micOff EXCEPT ![c] =
                  UpdatePeerStatus(@, roster[c], Head(down[c]).from, Head(down[c]).body)]
  /\ UNCHANGED <<localStream, isAudioEnabled, isVideoEnabled, isScreenSharing, screenStream, senders, camOff, clicks, up>>
  /\ UNCHANGED sessionVars
  /\ PageFrame

CliUserToggleVideo(c) ==
  /\ Gets(c, "user-toggle-video")
  /\ camOff' = [camOff EXCEPT ![c] =
                  UpdatePeerStatus(@, roster[c], Head(down[c]).from, Head(down[c]).body)]
  /\ UNCHANGED <<localStream, isAudioEnabled, isVideoEnabled, isScreenSharing, screenStream, senders, micOff, clicks, up>>
  /\ UNCHANGED sessionVars
  /\ PageFrame

\* ------------------------------------------------------------ negotiation
\* RTCPeerConnection.signalingState
Signaling(p) ==
  IF p.local = "offer" /\ p.remote = "none" THEN "have-local-offer"
  ELSE IF p.remote = "offer" /\ p.local = "none" THEN "have-remote-offer"
  ELSE "stable"

\* a session of page c that is stored in this.peers and not closed
Open(c, r) == Live(c) /\ r \in DOMAIN peers[c] /\ ~peers[c][r].closed

\* the operations queued behind setRemoteDescription run when it settles:
\* each queued candidate is added if a remote description is there by then
Flush(p) ==
  IF p.remote # "none"
    THEN [p EXCEPT !.applied = @ \o p.chain, !.chain = <<>>]
    ELSE [p EXCEPT !.chain = <<>>]

Range(q) == {q[i] : i \in 1..Len(q)}

Rejected(c, r, p) == IF p.remote # "none" THEN {} ELSE {<<c, r, k>> : k \in Range(p.chain)}

NegFrame ==
  /\ UNCHANGED <<snapshot, orphans, chatShown, chatCount, localStream, isAudioEnabled, isVideoEnabled, isScreenSharing, screenStream, clicks, down>>
  /\ PageFrame

\* createAndSendOffer: await connection.createOffer() resolves
OfferCreated(c, r) ==
  /\ Open(c, r)
  /\ peers[c][r].sendTask = "createOffer"
  /\ peers' = [peers EXCEPT ![c][r].sendTask = "setLocal"]
  /\ UNCHANGED <<roster, videos, offerCount, iceBudget, transportLost, earlyIce, iceLost, up>>
  /\ UNCHANGED <<senders, micOff, camOff>>
  /\ NegFrame

\* createAndSendOffer: await connection.setLocalDescription(offer) settles; when
\* it resolved, socket.emit('offer', { to: userId, offer }); a rejection is caught
\* variant: the local description is set but the offer is never emitted
OfferLocalSetUnsent(c, r) ==
  /\ Open(c, r)
  /\ peers[c][r].sendTask = "setLocal"
  /\ IF Signaling(peers[c][r]) \in {"stable", "have-local-offer"}
       THEN /\ peers' = [peers EXCEPT ![c][r].sendTask = "none", ![c][r].local = "offer"]
            /\ offerCount' = [offerCount EXCEPT ![<<c, r>>] = @ + 1]
            /\ UNCHANGED up
       ELSE /\ peers' = [peers EXCEPT ![c][r].sendTask = "none"]
            /\ UNCHANGED <<up, offerCount>>
  /\ UNCHANGED <<roster, videos, iceBudget, transportLost, earlyIce, iceLost>>
  /\ UNCHANGED <<senders, micOff, camOff>>
  /\ NegFrame

OfferLocalSet(c, r) ==
  /\ Open(c, r)
  /\ peers[c][r].sendTask = "setLocal"
  /\ IF Signaling(peers[c][r]) \in {"stable", "have-local-offer"}
       THEN /\ peers' = [peers EXCEPT ![c][r].sendTask = "none", ![c][r].local = "offer"]
            /\ up' = [up EXCEPT ![c] = Append(@, Msg("offer", c, r, "", "offer"))]
            /\ offerCount' = [offerCount EXCEPT ![<<c, r>>] = @ + 1]
       ELSE /\ peers' = [peers EXCEPT ![c][r].sendTask = "none"]
            /\ UNCHANGED <<up, offerCount>>
  /\ UNCHANGED <<roster, videos, iceBudget, transportLost, earlyIce, iceLost>>
  /\ UNCHANGED <<senders, micOff, camOff>>
  /\ NegFrame

\* socket.on('offer', async ({ from, username, offer }) => ...) up to its first
\* await: the session is looked up or created, setRemoteDescription is called
CliOffer(c) ==
  /\ Gets(c, "offer")
  /\ LET m  == Head(down[c])
         m1 == IF m.from \in DOMAIN peers[c] THEN peers[c]
               ELSE createPeerConnection(peers[c], m.from, m.name, FALSE)
     IN /\ peers' = [peers EXCEPT ![c] = [m1 EXCEPT ![m.from].recvTask = "setRemote"]]
        /\ roster' = [roster EXCEPT ![c] = addParticipant(@, m.from)]
  /\ senders' = [senders EXCEPT ![c] = SendersAdd(@, {Head(down[c]).from} \ DOMAIN peers[c], c)]
  /\ UNCHANGED <<snapshot, videos, orphans, offerCount, iceBudget, transportLost, earlyIce, iceLost, chatShown, chatCount, localStream, isAudioEnabled, isVideoEnabled, isScreenSharing, screenStream, micOff, camOff, clicks, up>>
  /\ PageFrame

\* offer handler: await setRemoteDescription(offer) settles, createAnswer is called;
\* the description carries the tracks of the remote stream, so connection.ontrack
\* runs addRemoteVideo
RemoteOfferSet(c, r) ==
  /\ Open(c, r)
  /\ peers[c][r].recvTask = "setRemote"
  /\ LET p == peers[c][r] IN
     IF Signaling(p) \in {"stable", "have-remote-offer"}
       THEN /\ peers' = [peers EXCEPT ![c][r] =
                           Flush([p EXCEPT !.remote = "offer", !.recvTask = "createAnswer"])]
            /\ videos' = [videos EXCEPT ![c] = @ \cup {r}]
            /\ UNCHANGED iceLost
       ELSE /\ peers' = [peers EXCEPT ![c][r] = Flush([p EXCEPT !.recvTask = "none"])]
            /\ iceLost' = iceLost \cup Rejected(c, r, p)
            /\ UNCHANGED videos
  /\ UNCHANGED <<roster, offerCount, iceBudget, transportLost, earlyIce, up>>
  /\ UNCHANGED <<senders, micOff, camOff>>
  /\ NegFrame

\* offer handler: await createAnswer() resolves, setLocalDescription is called
AnswerCreated(c, r) ==
  /\ Open(c, r)
  /\ peers[c][r].recvTask = "createAnswer"
  /\ peers' = [peers EXCEPT ![c][r].recvTask = "setLocal"]
  /\ UNCHANGED <<roster, videos, offerCount, iceBudget, transportLost, earlyIce, iceLost, up>>
  /\ UNCHANGED <<senders, micOff, camOff>>
  /\ NegFrame

\* the offer handler addressing its answer to the room instead of the offerer
AnswerLocalSetToRoom(c, r) ==
  /\ Open(c, r)
  /\ peers[c][r].recvTask = "setLocal"
  /\ peers' = [peers EXCEPT ![c][r].recvTask = "none", ![c][r].local = "answer"]
  /\ up' = [up EXCEPT ![c] = Append(@, Msg("answer", c, roomId[c], "", "answer"))]
  /\ UNCHANGED <<roster, videos, offerCount, iceBudget, transportLost, earlyIce, iceLost>>
  /\ UNCHANGED <<senders, micOff, camOff>>
  /\ NegFrame

\* offer handler: await setLocalDescription(answer) resolves,
\* socket.emit('answer', { to: from, answer })
AnswerLocalSet(c, r) ==
  /\ Open(c, r)
  /\ peers[c][r].recvTask = "setLocal"
  /\ peers' = [peers EXCEPT ![c][r].recvTask = "none", ![c][r].local = "answer"]
  /\ up' = [up EXCEPT ![c] = Append(@, Msg("answer", c, r, "", "answer"))]
  /\ UNCHANGED <<roster, videos, offerCount, iceBudget, transportLost, earlyIce, iceLost>>
  /\ UNCHANGED <<senders, micOff, camOff>>
  /\ NegFrame

\* the answer handler doing nothing with the packet
CliAnswerDropped(c) ==
  /\ Gets(c, "answer")
  /\ UNCHANGED <<peers, snapshot, roster, videos, orphans, offerCount, iceBudget,
                 transportLost, earlyIce, iceLost, chatShown, chatCount, mediaVars, up>>
  /\ PageFrame

\* socket.on('answer', async ({ from, answer }) => ...) up to its await
CliAnswer(c) ==
  /\ Gets(c, "answer")
  /\ LET from == Head(down[c]).from IN
     peers' = IF from \in DOMAIN peers[c]
                THEN [peers EXCEPT ![c][from].ansTask = "setRemote"]
                ELSE peers
  /\ UNCHANGED <<snapshot, roster, videos, orphans, offerCount, iceBudget, transportLost, earlyIce, iceLost, chatShown, chatCount, mediaVars, up>>
  /\ PageFrame

\* answer handler: await setRemoteDescription(answer) settles
\* variant: setRemoteDescription(answer) succeeds in every signaling state
RemoteAnswerSetAlways(c, r) ==
  /\ Open(c, r)
  /\ peers[c][r].ansTask = "setRemote"
  /\ peers' = [peers EXCEPT ![c][r] =
                 Flush([peers[c][r] EXCEPT !.remote = "answer", !.ansTask = "none"])]
  /\ videos' = [videos EXCEPT ![c] = @ \cup {r}]
  /\ UNCHANGED <<roster, offerCount, iceBudget, transportLost, earlyIce, iceLost, up>>
  /\ UNCHANGED <<senders, micOff, camOff>>
  /\ NegFrame

RemoteAnswerSet(c, r) ==
  /\ Open(c, r)
  /\ peers[c][r].ansTask = "setRemote"
  /\ LET p == peers[c][r] IN
     IF Signaling(p) = "have-local-offer"
       THEN /\ peers' = [peers EXCEPT ![c][r] =
                           Flush([p EXCEPT !.remote = "answer", !.ansTask = "none"])]
            /\ videos' = [videos EXCEPT ![c] = @ \cup {r}]
            /\ UNCHANGED iceLost
       ELSE /\ peers' = [peers EXCEPT ![c][r] = Flush([p EXCEPT !.ansTask = "none"])]
            /\ iceLost' = iceLost \cup Rejected(c, r, p)
            /\ UNCHANGED videos
  /\ UNCHANGED <<roster, offerCount, iceBudget, transportLost, earlyIce, up>>
  /\ UNCHANGED <<senders, micOff, camOff>>
  /\ NegFrame

\* connection.onicecandidate: a candidate is discovered once the local
\* description is set and is emitted addressed to the remote id
IceCandidate(c, r) ==
  /\ Open(c, r)
  /\ peers[c][r].local # "none"
  /\ iceBudget < MaxIce
  /\ iceBudget' = iceBudget + 1
  /\ peers' = [peers EXCEPT ![c][r].iceOut = @ + 1]
  /\ up' = [up EXCEPT ![c] = Append(@, Msg("ice-candidate", c, r, "", peers[c][r].iceOut + 1))]
  /\ UNCHANGED <<roster, videos, offerCount, transportLost, earlyIce, iceLost>>
  /\ UNCHANGED <<senders, micOff, camOff>>
  /\ NegFrame

\* what addIceCandidate does with candidate k on session p of page c for remote r;
\* how is the transport's answer when no remote description is there: "chain"
\* (queued behind a setRemoteDescription still in progress) or "reject"
\* (InvalidStateError, caught and logged by the handler)
addIceCandidate(c, r, p, k, how) ==
  IF p.remote # "none"
    THEN /\ peers' = [peers EXCEPT ![c][r].applied = Append(@, k)]
         /\ UNCHANGED <<earlyIce, iceLost>>
    ELSE /\ earlyIce' = earlyIce \cup {<<c, r, k>>}
         /\ IF how = "chain" /\ (p.recvTask = "setRemote" \/ p.ansTask = "setRemote")
              THEN /\ peers' = [peers EXCEPT ![c][r].chain = Append(@, k)]
                   /\ UNCHANGED iceLost
              ELSE /\ iceLost' = iceLost \cup {<<c, r, k>>}
                   /\ UNCHANGED peers

\* socket.on('ice-candidate', async ({ from, candidate }) => ...)
CliIce(c) ==
  /\ Gets(c, "ice-candidate")
  /\ LET m == Head(down[c]) IN
     IF m.from \in DOMAIN peers[c]
       THEN \E how \in {"chain", "reject"} :
              addIceCandidate(c, m.from, peers[c][m.from], m.body, how)
       ELSE UNCHANGED <<peers, earlyIce, iceLost>>
  /\ UNCHANGED <<snapshot, roster, videos, orphans, offerCount, iceBudget, transportLost, chatShown, chatCount, mediaVars, up>>
  /\ PageFrame

\* the connectivity-loss callback starting a new session as initiator after
\* removing the old one
TransportFailRenegotiates(c, r) ==
  /\ Open(c, r)
  /\ peers[c][r].local # "none"
  /\ peers[c][r].remote # "none"
  /\ peers' = [peers EXCEPT ![c] =
                 createPeerConnection(removePeer(@, r), r, peers[c][r].username, TRUE)]
  /\ roster' = [roster EXCEPT ![c] = addParticipant(@ \ {r}, r)]
  /\ videos' = [videos EXCEPT ![c] = @ \ {r}]
  /\ transportLost' = transportLost \cup {<<c, r, offerCount[<<c, r>>]>>}
  /\ UNCHANGED <<offerCount, iceBudget, earlyIce, iceLost, up>>
  /\ senders' = [senders EXCEPT ![c] = SendersAdd(SendersDrop(@, r), {r}, c)]
  /\ micOff' = [micOff EXCEPT ![c] = @ \ {r}]
  /\ camOff' = [camOff EXCEPT ![c] = @ \ {r}]
  /\ NegFrame

\* connection.onconnectionstatechange with 'disconnected' or 'failed':
\* this.removePeer(userId); the transport reports a loss only after both
\* descriptions are set
TransportFail(c, r) ==
  /\ Open(c, r)
  /\ peers[c][r].local # "none"
  /\ peers[c][r].remote # "none"
  /\ peers' = [peers EXCEPT ![c] = removePeer(@, r)]
  /\ roster' = [roster EXCEPT ![c] = @ \ {r}]
  /\ videos' = [videos EXCEPT ![c] = @ \ {r}]
  /\ transportLost' = transportLost \cup {<<c, r, offerCount[<<c, r>>]>>}
  /\ UNCHANGED <<offerCount, iceBudget, earlyIce, iceLost, up>>
  /\ senders' = [senders EXCEPT ![c] = SendersDrop(@, r)]
  /\ micOff' = [micOff EXCEPT ![c] = @ \ {r}]
  /\ camOff' = [camOff EXCEPT ![c] = @ \ {r}]
  /\ NegFrame

\* ------------------------------------------------------------ chat
\* String.prototype.trim on a string kept as a sequence of characters
RECURSIVE TrimStart(_)
TrimStart(t) == IF t # <<>> /\ Head(t) = " " THEN TrimStart(Tail(t)) ELSE t

RECURSIVE TrimEnd(_)
TrimEnd(t) == IF t # <<>> /\ t[Len(t)] = " " THEN TrimEnd(SubSeq(t, 1, Len(t) - 1)) ELSE t

Trim(t) == TrimEnd(TrimStart(t))

ChatInputs == {<<" ">>, <<" ", "h", " ">>, <<"y", " ", "o">>}

\* sendChatMessage(): the trimmed input is emitted unless it is empty
sendChatMessage(c, input) ==
  /\ Live(c)
  /\ chatCount < MaxChat
  /\ chatCount' = chatCount + 1
  /\ LET message == Trim(input) IN
     up' = IF message # <<>>
             THEN [up EXCEPT ![c] = Append(@, Msg("chat-message", c, roomId[c], "", message))]
             ELSE up
  /\ UNCHANGED <<peers, snapshot, roster, videos, orphans, offerCount, iceBudget, transportLost, earlyIce, iceLost, chatShown, mediaVars, down>>
  /\ PageFrame

\* socket.on('chat-message', ...): addChatMessage(username, message, timestamp, isOwn)
CliChat(c) ==
  /\ Gets(c, "chat-message")
  /\ LET m == Head(down[c]) IN
     chatShown' = [chatShown EXCEPT ![c] =
                     Append(@, [username |-> m.name, message |-> m.body.message,
                                timestamp |-> m.body.timestamp, isOwn |-> m.from = c])]
  /\ UNCHANGED <<peers, snapshot, roster, videos, orphans, offerCount, iceBudget, transportLost, earlyIce, iceLost, chatCount, mediaVars, up>>
  /\ PageFrame

\* ------------------------------------------------------------ raw connections
\* any program may open a socket.io connection and emit join-room packets
RawConnect(s) ==
  /\ phase[s] = "idle"
  /\ phase' = [phase EXCEPT ![s] = "raw"]
  /\ sockState' = [sockState EXCEPT ![s] = "open"]
  /\ UNCHANGED <<rooms, sockRoomId, sockUsername, sids, joinLog, serverUp, up, down,
                 roomId, username, peers, snapshot, roster, videos, orphans, offerCount, iceBudget, transportLost,
                 earlyIce, iceLost, chatLog, chatShown, chatCount, mediaVars, joinCount, sendCount>>

\* usernames a raw connection sends: the registry is keyed by socket id
\* alone, so one value covers the handler
RawNames == {"ann"}

\* a join-room packet of a raw connection reaches the server
RawJoin(s, rid, uname) ==
  /\ serverUp
  /\ phase[s] = "raw"
  /\ sockState[s] = "open"
  /\ joinCount < MaxJoins
  /\ joinCount' = joinCount + 1
  /\ OnJoinRoom(s, rid, uname)
  /\ UNCHANGED <<sockState, serverUp, up, chatLog, sendCount>>
  /\ UNCHANGED clientVars

\* the raw connection goes away (closed, or the network drops)
RawClose(s) ==
  /\ phase[s] = "raw"
  /\ phase' = [phase EXCEPT ![s] = "left"]
  /\ UNCHANGED <<roomId, username, peers, snapshot, roster, videos, orphans, offerCount, iceBudget, transportLost,
                 earlyIce, iceLost, chatShown, chatCount, mediaVars>>
  /\ UNCHANGED <<up, down, chatLog, joinCount, sendCount>>
  /\ UNCHANGED serverVars

\* what a raw connection may put into a directed packet: `to` is any string,
\* a connection id or not; the payload is opaque to the server
RelayTypes == {"offer", "answer", "ice-candidate"}
Targets    == {"s1", "s2", "r1"}
Payloads   == {"v=0 a", "v=0 b"}

\* the payloads of a packet type: session descriptions, or a candidate
PayloadsOf(type) == IF type = "offer" THEN Payloads ELSE {"v=0 a"}

\* a raw connection emits offer, answer or ice-candidate
RawSend(s, type, to, body) ==
  /\ phase[s] = "raw"
  /\ sockState[s] = "open"
  /\ sendCount < MaxSends
  /\ sendCount' = sendCount + 1
  /\ up' = [up EXCEPT ![s] = Append(@, Msg(type, s, to, "", body))]
  /\ UNCHANGED <<down, chatLog, joinCount>>
  /\ UNCHANGED serverVars
  /\ UNCHANGED clientVars

NextServer ==
  \/ \E s \in Sockets : RawConnect(s)
  \/ \E s \in Sockets, rid \in RoomIds, uname \in RawNames : RawJoin(s, rid, uname)
  \/ \E s \in Sockets : RawClose(s)
  \/ \E s \in Sockets : SrvDisconnect(s)

SpecServer == Init /\ [][NextServer]_vars

\* three raw connections are open; s2 and then s3 have joined room r1
RelayStart ==
  LET u2 == [id |-> "s2", username |-> "ann"]
      u3 == [id |-> "s3", username |-> "ann"]
  IN
  /\ sockState = [s \in Sockets |-> "open"]
  /\ rooms = [r \in {"r1"} |-> <<u2, u3>>]
  /\ sockRoomId = [s \in Sockets |-> IF s = "s1" THEN Undefined ELSE "r1"]
  /\ sockUsername = [s \in Sockets |-> IF s = "s1" THEN Undefined ELSE "ann"]
  /\ sids = [s \in Sockets |-> IF s = "s1" THEN {} ELSE {"r1"}]
  /\ joinLog = << <<"s2", "r1">>, <<"s3", "r1">> >>
  /\ up = [s \in Sockets |-> <<>>]
  /\ down = [s \in Sockets |->
               IF s = "s2" THEN << Msg("existing-users", "s2", "", "ann", <<>>),
                                   Msg("user-joined", "s3", "", "ann", <<>>) >>
               ELSE IF s = "s3" THEN << Msg("existing-users", "s3", "", "ann", <<u2>>) >>
               ELSE <<>>]
  /\ phase = [s \in Sockets |-> "raw"]
  /\ roomId = [s \in Sockets |-> Undefined]
  /\ username = [s \in Sockets |-> Undefined]
  /\ peers = [s \in Sockets |-> NoPeers]
  /\ snapshot = [s \in Sockets |-> [got |-> FALSE, ids |-> {}]]
  /\ roster = [s \in Sockets |-> {}]
  /\ videos = [s \in Sockets |-> {}]
  /\ orphans = [s \in Sockets |-> <<>>]
  /\ offerCount = [p \in Sockets \X Sockets |-> 0]
  /\ iceBudget = 0
  /\ earlyIce = {}
  /\ iceLost = {}
  /\ transportLost = {}
  /\ chatLog = <<>>
  /\ chatShown = [s \in Sockets |-> <<>>]
  /\ chatCount = 0
  /\ localStream = [s \in Sockets |-> "none"]
  /\ isAudioEnabled = [s \in Sockets |-> TRUE]
  /\ isVideoEnabled = [s \in Sockets |-> TRUE]
  /\ isScreenSharing = [s \in Sockets |-> FALSE]
  /\ screenStream = [s \in Sockets |-> "none"]
  /\ senders = [s \in Sockets |-> NoPeers]
  /\ micOff = [s \in Sockets |-> {}]
  /\ camOff = [s \in Sockets |-> {}]
  /\ clicks = 0
  /\ serverUp = TRUE
  /\ joinCount = 2
  /\ sendCount = 0

\* the relay handlers of the server under raw connections, from RelayStart
\* a connection emits an event whose required fields are missing: with no
\* payload at all, or with a payload object that has none of the fields
Shapes == {"none", "empty"}

RawSendMalformed(s, type, shape) ==
  /\ phase[s] = "raw"
  /\ sockState[s] = "open"
  /\ sendCount < MaxSends
  /\ sendCount' = sendCount + 1
  /\ up' = [up EXCEPT ![s] = Append(@, Msg(type, s, IF shape = "none" THEN NoPayload ELSE Undefined,
                                           Undefined, Undefined))]
  /\ UNCHANGED <<down, chatLog, joinCount>>
  /\ UNCHANGED serverVars
  /\ UNCHANGED clientVars

\* a handler ({ ... }) => invoked with undefined: destructuring throws a
\* TypeError inside the listener, nothing catches it, the process exits
SrvThrow(s) ==
  /\ serverUp
  /\ sockState[s] = "open"
  /\ up[s] # <<>>
  /\ Head(up[s]).to = NoPayload
  /\ up' = [up EXCEPT ![s] = Tail(@)]
  /\ serverUp' = FALSE
  /\ UNCHANGED <<sockState, rooms, sockRoomId, sockUsername, sids, joinLog>>
  /\ UNCHANGED <<down, chatLog, joinCount, sendCount>>
  /\ UNCHANGED clientVars

NextMalformed ==
  \/ \E s \in Sockets, type \in RelayTypes \cup {"join-room"}, shape \in Shapes :
       RawSendMalformed(s, type, shape)
  \/ \E s \in Sockets, type \in RelayTypes, to \in Targets :
       \E body \in PayloadsOf(type) : RawSend(s, type, to, body)
  \/ \E s \in Sockets : SrvThrow(s)
  \/ \E s \in Sockets : SrvJoinRoom(s)
  \/ \E s \in Sockets : SrvOffer(s)
  \/ \E s \in Sockets : SrvAnswer(s)
  \/ \E s \in Sockets : SrvIce(s)
  \/ \E s \in Sockets : RawClose(s)
  \/ \E s \in Sockets : SrvDisconnect(s)

SpecMalformed == RelayStart /\ [][NextMalformed]_vars

\* a member of the room emits its next packet: the n-th packet of the run
\* carries payload n
BurstTypes == {"offer", "ice-candidate", "chat-message"}

RawBurst(s, type) ==
  /\ phase[s] = "raw"
  /\ sockState[s] = "open"
  /\ Truthy(sockRoomId[s])
  /\ sendCount < MaxBurst
  /\ sendCount' = sendCount + 1
  /\ LET to == IF type = "chat-message" THEN sockRoomId[s]
               ELSE CHOOSE t \in MapKeys(rooms[sockRoomId[s]]) : t # s
     IN up' = [up EXCEPT ![s] = Append(@, Msg(type, s, to, "", sendCount + 1))]
  /\ UNCHANGED <<down, chatLog, joinCount>>
  /\ UNCHANGED serverVars
  /\ UNCHANGED clientVars

NextOrder ==
  \/ \E s \in Sockets, type \in BurstTypes : RawBurst(s, type)
  \/ \E s \in Sockets : SrvOffer(s)
  \/ \E s \in Sockets : SrvIce(s)
  \/ \E s \in Sockets : SrvChat(s)

SpecOrder == RelayStart /\ [][NextOrder]_vars

\* a connection emits an event whose payload names another connection as its
\* sender (extra fields from / userId / username next to the required ones)
NotifyTypes == RelayTypes \cup {"chat-message", "toggle-audio", "toggle-video"}

SpoofBody(type) ==
  IF type \in RelayTypes THEN "v=0 a"
  ELSE IF type = "chat-message" THEN "hi"
  ELSE FALSE

RawSpoof(s, type, to, claimed) ==
  /\ phase[s] = "raw"
  /\ sockState[s] = "open"
  /\ claimed # s
  /\ sendCount < MaxSpoof
  /\ sendCount' = sendCount + 1
  /\ up' = [up EXCEPT ![s] = Append(@, Msg(type, claimed, to, "eve", SpoofBody(type)))]
  /\ UNCHANGED <<down, chatLog, joinCount>>
  /\ UNCHANGED serverVars
  /\ UNCHANGED clientVars

NextSpoof ==
  \/ \E s \in Sockets, type \in NotifyTypes, claimed \in Sockets :
       \E to \in (IF type \in RelayTypes THEN {"s2", "s3"} ELSE {"r1"}) :
         RawSpoof(s, type, to, claimed)
  \/ \E s \in Sockets : SrvOffer(s)
  \/ \E s \in Sockets : SrvAnswer(s)
  \/ \E s \in Sockets : SrvIce(s)
  \/ \E s \in Sockets : SrvChat(s)
  \/ \E s \in Sockets : SrvToggleAudio(s)
  \/ \E s \in Sockets : SrvToggleVideo(s)

SpecSpoof == RelayStart /\ [][NextSpoof]_vars

\* a raw connection emits an offer or an answer addressed to a page, at any
\* time and any number of times up to the bound
RawSignal(s, type, to) ==
  /\ phase[s] = "raw"
  /\ sockState[s] = "open"
  /\ sendCount < MaxSpoof
  /\ sendCount' = sendCount + 1
  /\ up' = [up EXCEPT ![s] = Append(@, Msg(type, s, to, "", type))]
  /\ UNCHANGED <<down, chatLog, joinCount>>
  /\ UNCHANGED serverVars
  /\ UNCHANGED clientVars

NextAnswer ==
  \/ \E c \in {"s1"}, uname \in RawNames : Load(c, "r1", uname)
  \/ \E c \in {"s1"} : MediaOk(c)
  \/ \E s \in Sockets \ Pages : RawConnect(s)
  \/ \E s \in Sockets \ Pages, uname \in RawNames : RawJoin(s, "r1", uname)
  \/ \E s \in Sockets \ Pages, type \in {"offer", "answer"}, to \in {"s1"} : RawSignal(s, type, to)
  \/ \E s \in Sockets : SrvJoinRoom(s)
  \/ \E s \in Sockets : SrvOffer(s)
  \/ \E s \in Sockets : SrvAnswer(s)
  \/ \E c \in {"s1"} : CliExistingUsers(c)
  \/ \E c \in {"s1"} : CliUserJoined(c)
  \/ \E c \in {"s1"} : CliOffer(c)
  \/ \E c \in {"s1"} : CliAnswer(c)
  \/ \E c \in {"s1"}, r \in Sockets : OfferCreated(c, r)
  \/ \E c \in {"s1"}, r \in Sockets : OfferLocalSet(c, r)
  \/ \E c \in {"s1"}, r \in Sockets : RemoteOfferSet(c, r)
  \/ \E c \in {"s1"}, r \in Sockets : AnswerCreated(c, r)
  \/ \E c \in {"s1"}, r \in Sockets : AnswerLocalSet(c, r)
  \/ \E c \in {"s1"}, r \in Sockets : RemoteAnswerSet(c, r)

SpecAnswer == Init /\ [][NextAnswer]_vars

\* onconnectionstatechange of a connection that createPeerConnection replaced
\* in this.peers: the closure calls this.removePeer(userId), which looks the
\* id up in the map
OrphanTransportFail(c, i) ==
  /\ Live(c)
  /\ i \in 1..Len(orphans[c])
  /\ ~orphans[c][i].lost
  /\ ~orphans[c][i].session.closed
  /\ orphans[c][i].session.local # "none"
  /\ orphans[c][i].session.remote # "none"
  /\ LET r == orphans[c][i].id IN
     /\ orphans' = [orphans EXCEPT ![c][i].lost = TRUE]
     /\ peers' = [peers EXCEPT ![c] = removePeer(@, r)]
     /\ roster' = [roster EXCEPT ![c] = @ \ {r}]
     /\ videos' = [videos EXCEPT ![c] = @ \ {r}]
     /\ senders' = [senders EXCEPT ![c] = SendersDrop(@, r)]
     /\ micOff' = [micOff EXCEPT ![c] = @ \ {r}]
     /\ camOff' = [camOff EXCEPT ![c] = @ \ {r}]
  /\ UNCHANGED <<snapshot, offerCount, iceBudget, transportLost, earlyIce, iceLost,
                 chatShown, chatCount, localStream, isAudioEnabled, isVideoEnabled,
                 isScreenSharing, screenStream, clicks, up, down>>
  /\ PageFrame

NextStale ==
  \/ \E c \in {"s1"}, uname \in RawNames : Load(c, "r1", uname)
  \/ \E c \in {"s1"} : MediaOk(c)
  \/ \E s \in Sockets \ Pages : RawConnect(s)
  \/ \E s \in Sockets \ Pages, uname \in RawNames : RawJoin(s, "r1", uname)
  \/ \E s \in Sockets \ Pages : RawSend(s, "offer", "s1", "v=0 a")
  \/ \E s \in Sockets : SrvJoinRoom(s)
  \/ \E s \in Sockets : SrvOffer(s)
  \/ \E s \in Sockets : SrvAnswer(s)
  \/ \E c \in {"s1"} : CliExistingUsers(c)
  \/ \E c \in {"s1"} : CliUserJoined(c)
  \/ \E c \in {"s1"} : CliOffer(c)
  \/ \E c \in {"s1"}, r \in Sockets : OfferCreated(c, r)
  \/ \E c \in {"s1"}, r \in Sockets : OfferLocalSet(c, r)
  \/ \E c \in {"s1"}, r \in Sockets : RemoteOfferSet(c, r)
  \/ \E c \in {"s1"}, r \in Sockets : AnswerCreated(c, r)
  \/ \E c \in {"s1"}, r \in Sockets : AnswerLocalSet(c, r)
  \/ \E c \in {"s1"}, r \in Sockets : TransportFail(c, r)
  \/ \E c \in {"s1"}, i \in 1..MaxJoins : OrphanTransportFail(c, i)

SpecStale == Init /\ [][NextStale]_vars

NextRelay ==
  \/ \E s \in Sockets, type \in RelayTypes, to \in Targets :
       \E body \in PayloadsOf(type) : RawSend(s, type, to, body)
  \/ \E s \in Sockets : SrvOffer(s)
  \/ \E s \in Sockets : SrvAnswer(s)
  \/ \E s \in Sockets : SrvIce(s)
  \/ \E s \in Sockets : RawClose(s)
  \/ \E s \in Sockets : SrvDisconnect(s)

SpecRelay == RelayStart /\ [][NextRelay]_vars

\* the server with pages running room.js: membership and negotiation
Next ==
  \/ \E c \in Pages, rid \in RoomIds, uname \in Names \cup {""} : Load(c, rid, uname)
  \/ \E c \in Pages : MediaOk(c)
  \/ \E c \in Pages : MediaFail(c)
  \/ \E c \in Pages : Leave(c)
  \/ \E s \in Sockets : SrvJoinRoom(s)
  \/ \E s \in Sockets : SrvOffer(s)
  \/ \E s \in Sockets : SrvAnswer(s)
  \/ \E s \in Sockets : SrvIce(s)
  \/ \E s \in Sockets : SrvDisconnect(s)
  \/ \E c \in Pages : CliExistingUsers(c)
  \/ \E c \in Pages : CliUserJoined(c)
  \/ \E c \in Pages : CliUserLeft(c)
  \/ \E c \in Pages : CliOffer(c)
  \/ \E c \in Pages : CliAnswer(c)
  \/ \E c \in Pages : CliIce(c)
  \/ \E c, r \in Sockets : OfferCreated(c, r)
  \/ \E c, r \in Sockets : OfferLocalSet(c, r)
  \/ \E c, r \in Sockets : RemoteOfferSet(c, r)
  \/ \E c, r \in Sockets : AnswerCreated(c, r)
  \/ \E c, r \in Sockets : AnswerLocalSet(c, r)
  \/ \E c, r \in Sockets : RemoteAnswerSet(c, r)
  \/ \E c, r \in Sockets : IceCandidate(c, r)
  \/ \E c, r \in Sockets : TransportFail(c, r)

Spec == Init /\ [][Next]_vars

\* the server with pages running room.js: membership and chat; the sessions
\* the pages create stay parked at their first await
\* the steps the server and the pages take by themselves once an event or a
\* promise is pending: socket.io delivers every packet, the event loop runs
\* every handler and every continuation
Progress ==
  \/ \E s \in Sockets : SrvJoinRoom(s)
  \/ \E s \in Sockets : SrvOffer(s)
  \/ \E s \in Sockets : SrvAnswer(s)
  \/ \E s \in Sockets : SrvIce(s)
  \/ \E s \in Sockets : SrvDisconnect(s)
  \/ \E c \in Pages : CliExistingUsers(c)
  \/ \E c \in Pages : CliUserJoined(c)
  \/ \E c \in Pages : CliUserLeft(c)
  \/ \E c \in Pages : CliOffer(c)
  \/ \E c \in Pages : CliAnswer(c)
  \/ \E c \in Pages : CliIce(c)
  \/ \E c, r \in Sockets : OfferCreated(c, r)
  \/ \E c, r \in Sockets : OfferLocalSet(c, r)
  \/ \E c, r \in Sockets : RemoteOfferSet(c, r)
  \/ \E c, r \in Sockets : AnswerCreated(c, r)
  \/ \E c, r \in Sockets : AnswerLocalSet(c, r)
  \/ \E c, r \in Sockets : RemoteAnswerSet(c, r)

\* what users and the network do: no fairness is assumed for these
NextLive ==
  \/ \E c \in Pages, uname \in RawNames : Load(c, "r1", uname)
  \/ \E c \in Pages : MediaOk(c)
  \/ \E c \in Pages : Leave(c)
  \/ \E c, r \in Sockets : IceCandidate(c, r)
  \/ \E c, r \in Sockets : TransportFail(c, r)
  \/ Progress

SpecLive == Init /\ [][NextLive]_vars /\ WF_vars(Progress)

NextChat ==
  \/ \E c \in Pages, rid \in RoomNames, uname \in Names : Load(c, rid, uname)
  \/ \E c \in Pages : MediaOk(c)
  \/ \E c \in Pages : MediaFail(c)
  \/ \E c \in Pages : Leave(c)
  \/ \E s \in Sockets : SrvJoinRoom(s)
  \/ \E s \in Sockets : SrvChat(s)
  \/ \E s \in Sockets : SrvDisconnect(s)
  \/ \E c \in Pages : CliExistingUsers(c)
  \/ \E c \in Pages : CliUserJoined(c)
  \/ \E c \in Pages : CliUserLeft(c)
  \/ \E c \in Pages : CliChat(c)
  \/ \E c \in Pages, input \in ChatInputs : sendChatMessage(c, input)

SpecChat == Init /\ [][NextChat]_vars

\* room.js pages in room r1 together with a raw connection that may emit
\* join-room more than once; the sessions the pages create stay parked at
\* their first await
NextMedia ==
  \/ \E c \in Pages, uname \in RawNames : Load(c, "r1", uname)
  \/ \E c \in Pages : MediaOk(c)
  \/ \E c \in Pages : MediaAudioOnly(c)
  \/ \E c \in Pages : MediaFail(c)
  \/ \E c \in Pages : Leave(c)
  \/ \E c \in Pages : toggleAudio(c)
  \/ \E c \in Pages : toggleVideo(c)
  \/ \E c \in Pages : startScreenShare(c)
  \/ \E c \in Pages : stopScreenShare(c)
  \/ \E s \in Sockets : SrvJoinRoom(s)
  \/ \E s \in Sockets : SrvToggleAudio(s)
  \/ \E s \in Sockets : SrvToggleVideo(s)
  \/ \E s \in Sockets : SrvDisconnect(s)
  \/ \E c \in Pages : CliExistingUsers(c)
  \/ \E c \in Pages : CliUserJoined(c)
  \/ \E c \in Pages : CliUserLeft(c)
  \/ \E c \in Pages : CliUserToggleAudio(c)
  \/ \E c \in Pages : CliUserToggleVideo(c)

SpecMedia == Init /\ [][NextMedia]_vars

NextMixed ==
  \/ \E c \in Pages, uname \in RawNames : Load(c, "r1", uname)
  \/ \E c \in Pages : MediaOk(c)
  \/ \E c \in Pages : Leave(c)
  \/ \E s \in Sockets \ Pages : RawConnect(s)
  \/ \E s \in Sockets \ Pages, uname \in RawNames : RawJoin(s, "r1", uname)
  \/ \E s \in Sockets \ Pages : RawClose(s)
  \/ \E s \in Sockets : SrvJoinRoom(s)
  \/ \E s \in Sockets : SrvDisconnect(s)
  \/ \E c \in Pages : CliExistingUsers(c)
  \/ \E c \in Pages : CliUserJoined(c)
  \/ \E c \in Pages : CliUserLeft(c)

SpecMixed == Init /\ [][NextMixed]_vars

\* ================================================================ properties
Members(r) == IF r \in DOMAIN rooms THEN MapKeys(rooms[r]) ELSE {}

\* the connections whose join-room for room r was handled and that are still connected
JoinedNotLeft(r) ==
  {s \in Sockets : sockState[s] = "open" /\ \E i \in 1..Len(joinLog) : joinLog[i] = <<s, r>>}

\* the join-room of a was handled before the join-room of b, for the same room
JoinedBefore(a, b) ==
  \E i, j \in 1..Len(joinLog) :
    i < j /\ joinLog[i][1] = a /\ joinLog[j][1] = b /\ joinLog[i][2] = joinLog[j][2]

\* C1: the member set of every room is exactly the set of connections that
\* joined the room and have not disconnected
C1_MembersAreJoinedNotLeft == \A r \in RoomIds : Members(r) = JoinedNotLeft(r)

C3_OneRoomPerConnection ==
  /\ \A s \in Sockets : Cardinality({r \in DOMAIN rooms : s \in Members(r)}) <= 1
  /\ \A r \in DOMAIN rooms : \A i, j \in 1..Len(rooms[r]) :
       i # j => rooms[r][i].id # rooms[r][j].id
  /\ \A s \in Sockets :
       sockState[s] = "open" /\ sockRoomId[s] # Undefined =>
         sockRoomId[s] \in DOMAIN rooms /\ s \in Members(sockRoomId[s])

\* C4: when a join-room is handled the joiner is sent existing-users with the
\* other registered members of the room (id and name, in Map order, without
\* the joiner), and every other registered member is sent one user-joined
\* with the joiner's id and name
C4_JoinNotifiesEveryMember ==
  [][ Len(joinLog') = Len(joinLog) + 1 =>
        LET s    == joinLog'[Len(joinLog')][1]
            rid  == joinLog'[Len(joinLog')][2]
            room == rooms'[rid]
            me   == CHOOSE i \in 1..Len(room) : room[i].id = s
        IN /\ down'[s] = Append(down[s],
                Msg("existing-users", s, "", room[me].username,
                    SelectSeq(room, LAMBDA u : u.id # s)))
           /\ \A t \in MapKeys(room) \ {s} :
                down'[t] = Append(down[t], Msg("user-joined", s, "", room[me].username, <<>>))
    ]_vars

\* C5 as stated: of two members the one that joined first sends the offer
C5_EarlierMemberOffers ==
  \A a, b \in Sockets : JoinedBefore(a, b) => offerCount[<<b, a>>] = 0

\* C5: of two members A (present) and B (joining later), B is the initiator:
\* only B runs createAndSendOffer and sends the offer, only A applies a remote
\* offer and answers
C5_NewcomerOffers ==
  \A c \in Pages, r \in Sockets :
    /\ offerCount[<<c, r>>] > 0 => JoinedBefore(r, c)
    /\ r \in DOMAIN peers[c] =>
         /\ (peers[c][r].sendTask # "none" \/ peers[c][r].local = "offer") => JoinedBefore(r, c)
         /\ (peers[c][r].recvTask # "none" \/ peers[c][r].local = "answer") => JoinedBefore(c, r)

\* the newcomer's offer was answered by the earlier member
C5_Witness ==
  \E a, b \in Pages :
    /\ JoinedBefore(a, b)
    /\ offerCount[<<b, a>>] = 1
    /\ a \in DOMAIN peers[b] /\ peers[b][a].remote = "answer"
    /\ b \in DOMAIN peers[a] /\ peers[a][b].local = "answer"

C7_NoGlare ==
  \A x, y \in Sockets :
    /\ ~(offerCount[<<x, y>>] > 0 /\ offerCount[<<y, x>>] > 0)
    /\ (x \in Pages /\ y \in DOMAIN peers[x] /\ peers[x][y].remote = "offer")
         => offerCount[<<x, y>>] = 0

\* an offer was sent, relayed and applied by the other side
C7_Witness ==
  \E x, y \in Pages :
    /\ offerCount[<<x, y>>] = 1
    /\ x \in DOMAIN peers[y]
    /\ peers[y][x].remote = "offer"

\* C8: addIceCandidate is never called on a session whose remote description
\* is not set
C8_NoCandidateBeforeRemoteDescription == earlyIce = {}

IsIncreasing(q) == \A i, j \in 1..Len(q) : i < j => q[i] < q[j]

\* C9: every candidate received before the remote description was set is
\* applied once the description is set, none dropped, in arrival order
C9_EarlyCandidatesKeptInOrder ==
  \A c \in Pages : \A r \in DOMAIN peers[c] :
    peers[c][r].remote # "none" =>
      /\ \A e \in earlyIce : (e[1] = c /\ e[2] = r) => e[3] \in Range(peers[c][r].applied)
      /\ IsIncreasing(peers[c][r].applied)

\* the copies of chat entry e on their way to or shown by page s
ChatCopies(s, e) ==
  Cardinality({i \in 1..Len(down[s]) :
                 down[s][i].type = "chat-message" /\ down[s][i].body.timestamp = e.timestamp})
  + Cardinality({i \in 1..Len(chatShown[s]) : chatShown[s][i].timestamp = e.timestamp})

\* the copies of chat entry e at page s carry the text and sender of e
ChatTextKept(s, e) ==
  /\ \A i \in 1..Len(down[s]) :
       (down[s][i].type = "chat-message" /\ down[s][i].body.timestamp = e.timestamp)
         => down[s][i].body.message = e.message /\ down[s][i].from = e.from
  /\ \A i \in 1..Len(chatShown[s]) :
       chatShown[s][i].timestamp = e.timestamp
         => chatShown[s][i].message = e.message /\ chatShown[s][i].isOwn = (s = e.from)

\* C10: a chat-message a member of room R sent to R reaches every member of R
\* that is still connected, the sender included, exactly once and with the
\* text the sender emitted
C10_ChatReachesEveryMemberOnce ==
  \A n \in 1..Len(chatLog) :
    LET e == chatLog[n] IN
    /\ e.message \in {Trim(i) : i \in ChatInputs} \ {<<>>}
    /\ e.from \in e.members =>
         \A s \in e.members : sockState[s] = "open" =>
           ChatCopies(s, e) = 1 /\ ChatTextKept(s, e)

\* both members of a room, the sender among them, have shown the message
C10_Witness ==
  \E n \in 1..Len(chatLog) :
    LET e == chatLog[n] IN
    /\ e.from \in e.members
    /\ Cardinality(e.members) = 2
    /\ \A s \in e.members :
         \E i \in 1..Len(chatShown[s]) :
           chatShown[s][i].timestamp = e.timestamp /\ chatShown[s][i].message = e.message

\* the server handles a directed packet of socket s in this step
RelayStep(s) ==
  /\ sockState[s] = "open"
  /\ sockState' = sockState
  /\ up[s] # <<>>
  /\ Head(up[s]).type \in RelayTypes
  /\ up'[s] = Tail(up[s])

\* the packet the relay of packet m of socket s has to deliver
Relayed(s, m) ==
  Msg(m.type, s, "", IF m.type = "offer" THEN sockUsername[s] ELSE "", m.body)

Connected == {t \in Sockets : sockState[t] = "open"}

\* C11: relaying an offer, answer or ice-candidate gives the connection whose
\* id is `to` at most one packet, carrying the sender's id and the sender's
\* payload unchanged; a connected `to` other than the sender gets exactly one
C11_RelayVerbatimAtMostOnce ==
  [][ \A s \in Sockets : RelayStep(s) =>
        LET m == Head(up[s]) IN
        \A t \in Sockets : t = m.to =>
          /\ down'[t] = down[t] \/ down'[t] = Append(down[t], Relayed(s, m))
          /\ (t # s /\ t \in Connected) => down'[t] = Append(down[t], Relayed(s, m))
    ]_vars

\* an offer has been relayed to the connection it was addressed to
C11_Witness ==
  \E t \in Connected : \E i \in 1..Len(down[t]) :
    /\ down[t][i].type = "offer"
    /\ down[t][i].from # t
    /\ down[t][i].body = "v=0 b"
    /\ sendCount = 1

\* C12: a directed packet whose `to` is not the id of a connected socket is
\* delivered to nobody, and nothing goes back to the sender
C12_UnconnectedTargetDropped ==
  [][ \A s \in Sockets : RelayStep(s) =>
        (Head(up[s]).to \notin Connected => down' = down)
    ]_vars

\* the server handles the disconnect of socket s in this step
DisconnectStep(s) == sockState[s] = "open" /\ sockState'[s] = "closed"

HasJoined(s, r) == \E i \in 1..Len(joinLog) : joinLog[i] = <<s, r>>

\* queue q2 is queue q1 followed by one user-left packet about socket s
GotUserLeft(q1, q2, s) ==
  /\ Len(q2) = Len(q1) + 1
  /\ SubSeq(q2, 1, Len(q1)) = q1
  /\ q2[Len(q2)].type = "user-left"
  /\ q2[Len(q2)].from = s

\* C13: when a connection that joined room R disconnects it is removed from
\* the member set of R and every other connected member of R is sent exactly
\* one user-left carrying its id
C13_DisconnectLeavesEveryRoom ==
  [][ \A s \in Sockets : DisconnectStep(s) =>
        \A r \in RoomIds : HasJoined(s, r) =>
          /\ r \in DOMAIN rooms' => s \notin MapKeys(rooms'[r])
          /\ \A t \in (Members(r) \cap Connected) \ {s} : GotUserLeft(down[t], down'[t], s)
    ]_vars

\* C14: the disconnect of a connection that never joined a room changes no
\* member set, deletes no room and sends no user-left
C14_DisconnectWithoutJoinIsNoop ==
  [][ \A s \in Sockets :
        (DisconnectStep(s) /\ \A r \in RoomIds : ~HasJoined(s, r)) =>
          /\ rooms' = rooms
          /\ \A t \in Sockets \ {s} : down'[t] = down[t]
    ]_vars

\* a connection that never joined has disconnected while another connection
\* is a member of a room
C14_Witness ==
  \E s, t \in Sockets :
    /\ sockState[s] = "closed"
    /\ \A r \in RoomIds : ~HasJoined(s, r)
    /\ t \in Connected
    /\ \E r \in DOMAIN rooms : t \in Members(r)
    /\ \A i \in 1..Len(down[t]) : down[t][i].type # "user-left"

\* the rooms of the join-room packets of socket s, in the order they were handled
JoinsOf(s) == SelectSeq(joinLog, LAMBDA e : e[1] = s)

\* the existing-users packets of queue q before position j
SnapshotsBefore(q, j) == Cardinality({i \in 1..(j - 1) : q[i].type = "existing-users"})

\* C15: every user-joined sent to a connection about a third party comes
\* after the existing-users the connection was sent for a room the third
\* party has joined
C15_SnapshotBeforeLaterJoins ==
  \A s \in Connected : \A j \in 1..Len(down[s]) :
    down[s][j].type = "user-joined" =>
      \E k \in 1..SnapshotsBefore(down[s], j) : HasJoined(down[s][j].from, JoinsOf(s)[k][2])

\* a connection was sent its snapshot and then the user-joined of a third
\* party that joined the room later
C15_Witness ==
  \E s \in Connected : \E i, j \in 1..Len(down[s]) :
    /\ i < j
    /\ down[s][i].type = "existing-users"
    /\ down[s][j].type = "user-joined"
    /\ JoinedBefore(s, down[s][j].from)

\* page c takes a packet of the given type sent by r off its socket in this step
Handles(c, type, r) ==
  /\ Live(c)
  /\ down[c] # <<>>
  /\ Head(down[c]).type = type
  /\ Head(down[c]).from = r
  /\ down'[c] = Tail(down[c])

\* the session of page c for r is open before and after this step
StaysOpen(c, r) ==
  /\ Open(c, r)
  /\ r \in DOMAIN peers'[c]
  /\ ~peers'[c][r].closed

\* a session that has not negotiated: no description set, no offer under way
IsNew(p) == p.local = "none" /\ p.remote = "none" /\ p.sendTask = "none"

OfferSent(p) == p.local = "offer" /\ p.remote = "none"

\* C17: a page whose session for R is in offer-sent and that receives an
\* answer from R applies it as the remote description; the session then has
\* both descriptions (signaling state stable)
C17_AnswerConnects ==
  [][ \A c \in Pages, r \in Sockets :
        /\ (Handles(c, "answer", r) /\ r \in DOMAIN peers[c] /\ OfferSent(peers[c][r])) =>
              /\ r \in DOMAIN peers'[c]
              /\ peers'[c][r].ansTask = "setRemote"
        /\ (StaysOpen(c, r) /\ OfferSent(peers[c][r]) /\ peers[c][r].ansTask = "setRemote"
               /\ peers'[c][r].ansTask # "setRemote") =>
              /\ peers'[c][r].remote = "answer"
              /\ peers'[c][r].local = "offer"
              /\ Signaling(peers'[c][r]) = "stable"
    ]_vars

\* an offerer has applied the answer and shows the remote video
C17_Witness ==
  \E c \in Pages, r \in Pages :
    /\ Open(c, r)
    /\ peers[c][r].local = "offer"
    /\ peers[c][r].remote = "answer"
    /\ peers[c][r].ansTask = "none"
    /\ r \in videos[c]

\* C18: when the transport of the session for R reports a connectivity loss
\* the session is removed with its roster item and its video container, the
\* page and its other sessions go on, and from then on the page sends no
\* offer to R and holds no session for R that is about to send one
C18_TransportLossIsTerminal ==
  [][ \A c \in Pages, r \in Sockets :
        /\ (\E n \in 0..1 : <<c, r, n>> \in transportLost' \ transportLost) =>
              /\ r \notin DOMAIN peers'[c]
              /\ r \notin roster'[c]
              /\ r \notin videos'[c]
              /\ Live(c)'
              /\ \A q \in DOMAIN peers[c] \ {r} :
                    q \in DOMAIN peers'[c] /\ peers'[c][q] = peers[c][q]
        /\ (\E n \in 0..1 : <<c, r, n>> \in transportLost) =>
              /\ offerCount'[<<c, r>>] = offerCount[<<c, r>>]
              /\ r \in DOMAIN peers'[c] => peers'[c][r].sendTask = "none"
    ]_vars

\* a page lost the transport to a remote it had sent its offer to, and both
\* pages went on
C18_Witness ==
  \E c \in Pages, r \in Pages :
    /\ <<c, r, 1>> \in transportLost
    /\ Live(c)
    /\ Live(r)
    /\ r \notin DOMAIN peers[c]
    /\ c \in DOMAIN peers[r]

\* C19: user-left for R removes the session for R and its roster item and
\* video container in whatever state the session is, leaves the other
\* sessions alone, changes nothing when there is no session for R, and
\* removing twice equals removing once
C19_UserLeftRemovesOnce ==
  [][ \A c \in Pages, r \in Sockets :
        /\ Handles(c, "user-left", r) =>
              /\ r \notin DOMAIN peers'[c]
              /\ r \notin roster'[c]
              /\ r \notin videos'[c]
              /\ Live(c)'
              /\ \A q \in DOMAIN peers[c] \ {r} :
                    q \in DOMAIN peers'[c] /\ peers'[c][q] = peers[c][q]
              /\ r \notin DOMAIN peers[c] => peers'[c] = peers[c]
        /\ removePeer(removePeer(peers[c], r), r) = removePeer(peers[c], r)
        /\ r \notin DOMAIN peers[c] => removePeer(peers[c], r) = peers[c]
    ]_vars

\* a page removed on user-left a session whose offer was never answered
C19_Witness ==
  \E c \in Pages, r \in Pages :
    /\ Live(c)
    /\ offerCount[<<c, r>>] = 1
    /\ sockState[r] = "closed"
    /\ r \notin DOMAIN peers[c]
    /\ r \notin roster[c]
    /\ transportLost = {}
    /\ c \in DOMAIN peers[r] => peers[r][c].local = "none"
    /\ \A i \in 1..Len(down[c]) : down[c][i].type # "user-left"

\* the un-closed RTCPeerConnection objects page c has made for remote id r:
\* the one stored in this.peers and the replaced ones
LiveTransports(c, r) ==
  (IF Open(c, r) THEN 1 ELSE 0)
  + Cardinality({i \in 1..Len(orphans[c]) : orphans[c][i].id = r})

\* C20: a page holds at most one un-closed transport object per remote id
C20_OneLiveTransportPerRemote ==
  \A c \in Pages : Live(c) => \A r \in Sockets : LiveTransports(c, r) <= 1

\* RelayStart is a state the server reaches from Init
RelayStartUnreached == ~RelayStart

\* an asynchronous handler for remote r is between two of its awaits on page c
InProgress(c, r) ==
  /\ Open(c, r)
  /\ \/ peers[c][r].sendTask # "none"
     \/ peers[c][r].recvTask # "none"
     \/ peers[c][r].ansTask # "none"

\* page c starts handling another event of remote r: a socket event from r,
\* or the connection-state callback of r's transport
EventFor(c, r) ==
  \/ \E type \in {"offer", "answer", "ice-candidate", "user-left"} : Handles(c, type, r)
  \/ \E k \in 0..MaxJoins : <<c, r, k>> \in transportLost' \ transportLost

\* C21: while the handler of one event for remote R is in progress on a page,
\* the page processes no other event for R
C21_HandlersSerializedPerRemote ==
  [][\A c \in Pages, r \in Sockets : InProgress(c, r) => ~EventFor(c, r)]_vars

\* C22: a transport object that stopped being a page's session for remote R is
\* closed: none is left un-closed when a new session for R replaces it, and
\* after leaveRoom every session is closed and every local and screen track
\* is stopped
C22_EndedSessionsAreClosed ==
  \A c \in Pages :
    /\ \A i \in 1..Len(orphans[c]) : orphans[c][i].session.closed
    /\ phase[c] = "left" =>
         /\ \A r \in DOMAIN peers[c] : peers[c][r].closed
         /\ localStream[c] \in {"none", "stopped"}
         /\ screenStream[c] \in {"none", "stopped"}

\* C23: a join-room with a missing or invalid roomId or username registers
\* nothing: the registry has no room under such a roomId and no participant
\* entry with such a username
C23_InvalidJoinRejected ==
  \A rid \in DOMAIN rooms :
    /\ Truthy(rid)
    /\ \A i \in 1..Len(rooms[rid]) : Truthy(rooms[rid][i].username)

\* the server takes a message of connection s whose required fields are missing
TakesMalformed(s) ==
  /\ serverUp
  /\ sockState[s] = "open"
  /\ up[s] # <<>>
  /\ ~Truthy(Head(up[s]).to) \/ Head(up[s]).to = NoPayload
  /\ up'[s] = Tail(up[s])

\* C24: a message with missing required fields is dropped: handling it leaves
\* the server running and the room registry as it was
C24_MalformedMessageDropped ==
  [][\A s \in Sockets : TakesMalformed(s) => serverUp' /\ rooms' = rooms]_vars

\* C25: a message the server handles for connection s reaches a connection t
\* only if s and t are registered members of one room
C25_DeliveryOnlyAmongRoomMembers ==
  [][ \A s \in Sockets : RelayStep(s) =>
        \A t \in Sockets : down'[t] # down[t] =>
          \E r \in DOMAIN rooms : s \in Members(r) /\ t \in Members(r)
    ]_vars

\* every emitted message has been handled and no disconnect is pending
Quiescent ==
  \A s \in Sockets :
    /\ up[s] = <<>>
    /\ down[s] = <<>>
    /\ ~(phase[s] = "left" /\ sockState[s] = "open")

\* C26: with no transport failure and nothing in flight, the participants
\* list and the peers map of a joined page hold exactly the other current
\* members of its room
C26_QuiescentRosterIsMembership ==
  (Quiescent /\ transportLost = {}) =>
    \A c \in Pages : phase[c] = "joined" =>
      /\ roster[c] = Members(roomId[c]) \ {c}
      /\ DOMAIN peers[c] = Members(roomId[c]) \ {c}

\* two pages of one room list each other once everything is delivered
C26_Witness ==
  /\ Quiescent
  /\ transportLost = {}
  /\ phase["s1"] = "joined" /\ phase["s2"] = "joined"
  /\ roomId["s1"] = roomId["s2"]
  /\ roster["s1"] = {"s2"} /\ roster["s2"] = {"s1"}

\* page c has emitted join-room: the packet is on its way or was handled
HasEmittedJoin(c) ==
  \/ \E i \in 1..Len(up[c]) : up[c][i].type = "join-room"
  \/ \E i \in 1..Len(joinLog) : joinLog[i][1] = c

\* C29: a page emits join-room only once it holds a local stream, from the
\* video+audio request or from the audio-only retry (which leaves video
\* disabled); a page whose two requests both failed never emits join-room and
\* is in no room
C29_JoinOnlyAfterMedia ==
  \A c \in Pages :
    /\ HasEmittedJoin(c) => localStream[c] \in {"av", "audio", "stopped"}
    /\ localStream[c] = "audio" => ~isVideoEnabled[c]
    /\ phase[c] = "nomedia" =>
         /\ ~HasEmittedJoin(c)
         /\ \A r \in DOMAIN rooms : c \notin Members(r)
         /\ \A q \in Pages \ {c} : c \notin roster[q] /\ c \notin DOMAIN peers[q]

\* one page failed both requests while the other joined on the audio-only retry
C29_Witness ==
  /\ phase["s1"] = "nomedia"
  /\ localStream["s2"] = "audio"
  /\ "s2" \in Members("r1")

\* C27: with nothing in flight, what page q shows for another member p of its
\* room (the mic and camera icons of p's list item) equals p's own flags
C27_ShownFlagsMatchActual ==
  Quiescent =>
    \A p \in Pages, q \in Pages :
      (p # q /\ phase[p] = "joined" /\ phase[q] = "joined" /\ p \in roster[q]) =>
        /\ (p \notin micOff[q]) = isAudioEnabled[p]
        /\ (p \notin camOff[q]) = isVideoEnabled[p]

\* page c started (resp. stopped) screen capture in this step
ScreenShareStarts(c) == ~isScreenSharing[c] /\ isScreenSharing'[c]
ScreenShareStops(c)  == isScreenSharing[c] /\ ~isScreenSharing'[c]

\* the step sent nothing and left every session and the session set as it was
NoSignalingNoSessionChange(c) ==
  /\ up' = up
  /\ peers' = peers
  /\ DOMAIN senders'[c] = DOMAIN senders[c]

\* C28: starting screen capture puts the screen track on the video sender of
\* every session of the page, stopping it puts the camera track back; neither
\* step emits a message or changes a session or the set of sessions
C28_ScreenShareSwapsTrackInPlace ==
  [][\A c \in Pages :
       /\ ScreenShareStarts(c) =>
            /\ \A r \in DOMAIN senders[c] :
                 senders[c][r] # "none" => senders'[c][r] = "screen"
            /\ NoSignalingNoSessionChange(c)
       /\ ScreenShareStops(c) =>
            /\ \A r \in DOMAIN senders[c] :
                 senders[c][r] # "none" => senders'[c][r] = "camera"
            /\ NoSignalingNoSessionChange(c)
    ]_vars

\* a page with an open session to the other page is sending its screen there
C28_Witness ==
  /\ isScreenSharing["s1"]
  /\ Open("s1", "s2")
  /\ "s2" \in DOMAIN senders["s1"]
  /\ senders["s1"]["s2"] = "screen"

\* the packets of sender s delivered to t, in delivery order
DeliveredFrom(s, t) ==
  SelectSeq(down[t], LAMBDA m : m.from = s /\ m.type \in BurstTypes)

\* the payload number a delivered packet carries
PayloadOf(m) == IF m.type = "chat-message" THEN m.body.message ELSE m.body

\* C30: what one connection sends to one destination is delivered there in
\* the order it was sent: payload numbers grow along each recipient's queue
C30_DeliveredInSendOrder ==
  \A s \in Sockets, t \in Sockets :
    LET d == DeliveredFrom(s, t) IN
    \A i \in 1..Len(d), j \in 1..Len(d) : i < j => PayloadOf(d[i]) < PayloadOf(d[j])

\* s3 received from s2 an offer followed by an ice-candidate, and two chat
\* messages
C30_Witness ==
  LET d == DeliveredFrom("s2", "s3") IN
  /\ \E i \in 1..Len(d), j \in 1..Len(d) :
       i < j /\ d[i].type = "offer" /\ d[j].type = "ice-candidate"
  /\ \E i \in 1..Len(d), j \in 1..Len(d) :
       i < j /\ d[i].type = "chat-message" /\ d[j].type = "chat-message"

\* the server handles the next event of connection s
NotifyStep(s) ==
  /\ sockState[s] = "open"
  /\ up[s] # <<>>
  /\ Head(up[s]).type \in NotifyTypes
  /\ up'[s] = Tail(up[s])

\* C31: whatever the payload says, each packet the server sends out for an
\* event of connection s names s as its sender; a chat-message also carries
\* the username stored for s and the server's timestamp
C31_SenderIdIsConnectionId ==
  [][ \A s \in Sockets : NotifyStep(s) =>
        \A t \in Sockets : down'[t] # down[t] =>
          LET m == down'[t][Len(down'[t])] IN
          /\ Len(down'[t]) = Len(down[t]) + 1
          /\ m.from = s
          /\ m.type = "chat-message" =>
               /\ m.name = sockUsername[s]
               /\ m.body.timestamp = Len(chatLog')
    ]_vars

\* an event whose payload named another connection has been handled and
\* delivered to a connection other than its sender
C31_Witness ==
  /\ sendCount >= 1
  /\ \A s \in Sockets : up[s] = <<>>
  /\ \E t \in Sockets : \E i \in 1..Len(down[t]) :
       /\ down[t][i].type \in NotifyTypes \cup {"user-toggle-audio", "user-toggle-video"}
       /\ down[t][i].from # t

\* both descriptions of page c's session for r are set: the session is connected
Negotiated(c, r) ==
  /\ Open(c, r)
  /\ peers[c][r].local # "none"
  /\ peers[c][r].remote # "none"

\* both pages are registered in the room
BothJoined(a, b) ==
  /\ phase[a] = "joined" /\ phase[b] = "joined"
  /\ a \in Members("r1") /\ b \in Members("r1")

\* a page left or a transport reported disconnected / failed
Disturbed == (\E c \in Pages : phase[c] = "left") \/ transportLost # {}

\* C32: once two pages are members of one room, their negotiation completes
\* on both sides unless one of them disconnects or a transport fails
C32_NegotiationCompletes ==
  \A a \in Pages : \A b \in Pages \ {a} :
    BothJoined(a, b) ~> ((Negotiated(a, b) /\ Negotiated(b, a)) \/ Disturbed)

\* the responder has sent its answer and the initiator has applied it
C32_Witness ==
  /\ ~Disturbed
  /\ BothJoined("s1", "s2")
  /\ Negotiated("s1", "s2") /\ Negotiated("s2", "s1")
  /\ \E c \in Pages, r \in Pages : c # r /\ peers[c][r].remote = "answer" /\ peers[r][c].local = "answer"

\* C33: a connection whose disconnect the server has processed is a member
\* of no room
C33_DisconnectedIsInNoRoom ==
  \A s \in Sockets : sockState[s] = "closed" =>
    \A r \in DOMAIN rooms : s \notin Members(r)

\* C36: a relayed offer, answer or ice-candidate reaches no connection other
\* than the one whose id is `to`
C36_RelayReachesOnlyTo ==
  [][ \A s \in Sockets : RelayStep(s) =>
        \A t \in Sockets : down'[t] # down[t] => t = Head(up[s]).to
    ]_vars

\* C34: when a page handles an offer, the session for the offering page is
\* already in its peers map (made by user-joined): the offer handler creates
\* none and replaces none
C34_OfferFindsSession ==
  [][ \A c \in Pages, r \in Pages : Handles(c, "offer", r) =>
        /\ r \in DOMAIN peers[c]
        /\ ~peers[c][r].closed
        /\ DOMAIN peers'[c] = DOMAIN peers[c]
        /\ orphans'[c] = orphans[c]
    ]_vars

\* a page is handling the offer of the page that joined after it
C34_Witness ==
  \E c \in Pages, r \in Pages :
    /\ Open(c, r)
    /\ peers[c][r].recvTask = "setRemote"
    /\ r \notin snapshot[c].ids
    /\ orphans[c] = <<>>

\* the handler of an answer from r finishes on page c in this step: its
\* setRemoteDescription settles (no socket event is handled in the step)
AnswerHandled(c, r) ==
  /\ StaysOpen(c, r)
  /\ down'[c] = down[c]
  /\ peers[c][r].ansTask = "setRemote"
  /\ peers'[c][r].ansTask = "none"

StaleCallback(c, i) ==
  /\ i \in 1..Len(orphans[c])
  /\ i \in 1..Len(orphans'[c])
  /\ ~orphans[c][i].lost
  /\ orphans'[c][i].lost

\* C37: a connectivity-loss callback of a transport object that is no longer
\* the one stored under its remote id leaves the stored session alone
C37_StaleCallbackKeepsSession ==
  [][ \A c \in Pages, i \in 1..MaxJoins : StaleCallback(c, i) => peers'[c] = peers[c] ]_vars

\* C38: every session of a page that has a video sender sends the screen
\* track while the page is sharing its screen and the camera track while it
\* is not
C38_SenderTrackFollowsSharing ==
  \A c \in Pages : Live(c) =>
    \A r \in DOMAIN senders[c] :
      senders[c][r] # "none" =>
        senders[c][r] = (IF isScreenSharing[c] THEN "screen" ELSE "camera")

====
